---------------------------- MODULE Spec2Model ----------------------------
(***************************************************************************)
(* Authentication core of the Savezy backend: the OAuth state store and    *)
(* the code-flow federation handler (app/api/auth/routes.py), the session  *)
(* token codec and the per-request gate (app/utils/jwt_helper.py), and the *)
(* API-key table (app/models.py, add_api_key.py).                          *)
(*                                                                         *)
(* Spec      : google_init and concurrently running google_callback        *)
(*             requests over the shared in-process state_store.            *)
(* SpecGate  : generate_jwt / decode_jwt and token_required over a clock   *)
(*             and the api_key table.                                      *)
(* SpecToken : the codec under the clock, with the gate and the endpoints  *)
(*             token_verify2 and token_refresh2.                           *)
(* SpecFed   : google_callback next to google_verify over the users table. *)
(* SpecProv  : SpecFed next to a run of add_api_key.py.                    *)
(***************************************************************************)
EXTENDS Integers, Sequences, FiniteSets, TLC

\* Python's None, where a string is expected: no string, since "None" is no
\* character.
None == <<"None">>

(***************************************************************************)
(* Bounds of the model.                                                    *)
(***************************************************************************)
\* Number of state tokens secrets.token_urlsafe can hand out in one run.
MaxStates == 1
\* Last instant of the clock of SpecGate, in ticks.
MaxTime == 5
\* Number of generate_jwt calls in one run of SpecGate.
MaxMint == 1
\* Clock ticks per second: datetime carries sub-second precision, a token's
\* iat and exp are whole seconds.
TicksPerSecond == 2
\* JWT_EXPIRATION_HOURS of the environment.
JWT_EXP_HOURS == 1

(***************************************************************************)
(* Strings are sequences of characters, so that splitting the allow-list   *)
(* is computed and not assumed.                                            *)
(***************************************************************************)
\* os.getenv('ALLOWED_MOBILE_REDIRECT_URIS', ''): "a, b"
ALLOWED_MOBILE_REDIRECT_URIS == <<"a", ",", " ", "b">>

\* redirect_uri values a client can send: missing, '', 'a', 'b', ' b', 'a,'.
UriInputs == {None, <<>>, <<"a">>, <<"b">>, <<" ", "b">>, <<"a", ",">>}

\* redirect_uri values sent to the callback: missing, the two allow-listed
\* ones and one that is not allow-listed.
CallbackUris == {None, <<"a">>, <<" ", "b">>, <<"b">>}

\* Index of the first sep in s, 0 when there is none.
RECURSIVE FindSep(_, _, _)
FindSep(s, sep, i) ==
    IF i > Len(s) THEN 0
    ELSE IF s[i] = sep THEN i
    ELSE FindSep(s, sep, i + 1)

\* str.split(sep): the list of the pieces between separators, [''] for ''.
RECURSIVE Split(_, _)
Split(s, sep) ==
    LET i == FindSep(s, sep, 1)
    IN  IF i = 0 THEN <<s>>
        ELSE <<SubSeq(s, 1, i - 1)>> \o Split(SubSeq(s, i + 1, Len(s)), sep)

\* `x in list`
InList(x, list) == \E i \in 1..Len(list) : list[i] = x

\* A mutation of not_allowed: a prefix test instead of list membership.
not_allowed_prefix(uri) ==
    LET allowed_uris == Split(ALLOWED_MOBILE_REDIRECT_URIS, ",")
    IN  ~ \E i \in 1..Len(allowed_uris) :
            /\ Len(allowed_uris[i]) <= Len(uri)
            /\ SubSeq(uri, 1, Len(allowed_uris[i])) = allowed_uris[i]

\* allowed_uris = os.getenv(...).split(','); mobile_redirect_uri not in allowed_uris
not_allowed(uri) ==
    LET allowed_uris == Split(ALLOWED_MOBILE_REDIRECT_URIS, ",")
    IN  ~ InList(uri, allowed_uris)

\* Python truthiness of an optional string: None and '' are falsy.
Falsy(x) == x = None \/ x = <<>>

(***************************************************************************)
(* Session token codec: PyJWT as jwt_helper.py uses it.  A token is its    *)
(* claims and a MAC over them; the MAC is ideal (it determines key and     *)
(* claims).                                                                *)
(***************************************************************************)
JWT_SECRET == "JWT_SECRET_KEY"
\* A signing key that is not the server's.
ForeignSecret == "foreign"

NoToken == [kind |-> "none"]
\* A string that is no three-part token ("invalid.token.here").
Malformed == [kind |-> "malformed"]
NoPayload == [kind |-> "none"]

HS256(key, claims) == [key |-> key, claims |-> claims]

\* jwt.encode: datetime claims become whole seconds since the epoch
\* (timegm of the UTC time tuple), the other claims are serialised as JSON.
timegm(t) == t \div TicksPerSecond

jwt_encode(user_id, email, iat, exp, key) ==
    LET claims == [kind |-> "claims", user_id |-> user_id, email |-> email,
                   iat |-> timegm(iat), exp |-> timegm(exp)]
    IN  [kind |-> "jwt", claims |-> claims, sig |-> HS256(key, claims)]

\* timedelta(hours=h), in ticks; the hour is scaled down to one second.
timedelta_hours(h) == h * TicksPerSecond

\* A mutation of generate_jwt: the token is signed with another key than the
\* one decode_jwt verifies with.
generate_jwt_other_key(user_id, email, t1, t2) ==
    jwt_encode(user_id, email, t1, t2 + timedelta_hours(JWT_EXP_HOURS), ForeignSecret)

\* generate_jwt(user_id, email); t1 <= t2 are the two readings of utcnow().
generate_jwt(user_id, email, t1, t2) ==
    jwt_encode(user_id, email, t1, t2 + timedelta_hours(JWT_EXP_HOURS), JWT_SECRET)

\* jwt.decode(token, key, algorithms=[HS256], options={verify_exp}) at clock
\* reading t: the error raised, or "ok".  The signature is verified first,
\* then iat, then exp (exp <= now is expired).
jwt_decode_error(token, key, t, verify_exp) ==
    IF token.kind # "jwt" THEN "DecodeError"
    ELSE IF token.sig # HS256(key, token.claims) THEN "InvalidSignatureError"
    ELSE IF token.claims.iat * TicksPerSecond > t THEN "ImmatureSignatureError"
    ELSE IF verify_exp /\ token.claims.exp * TicksPerSecond <= t
         THEN "ExpiredSignatureError"
    ELSE "ok"

\* A mutation of decode_jwt: a token is still accepted at the instant of its
\* expiry (exp < now instead of exp <= now).
decode_jwt_late(token, t) ==
    IF jwt_decode_error(token, JWT_SECRET, t, FALSE) = "ok"
       /\ ~ (token.claims.exp * TicksPerSecond < t)
    THEN token.claims ELSE NoPayload

\* decode_jwt(token): the payload, or None on ExpiredSignatureError and on
\* every other InvalidTokenError.
decode_jwt(token, t) ==
    IF jwt_decode_error(token, JWT_SECRET, t, TRUE) = "ok"
    THEN token.claims ELSE NoPayload

\* A mutation of refresh_jwt: the expiry is verified, as decode_jwt does.
refresh_jwt_verify_exp(token, t1, t2) ==
    IF jwt_decode_error(token, JWT_SECRET, t1, TRUE) = "ok"
    THEN generate_jwt(token.claims.user_id, token.claims.email, t1, t2)
    ELSE NoToken

\* A mutation of refresh_jwt: the claims are read without verifying the
\* signature.
refresh_jwt_unverified(token, t1, t2) ==
    IF token.kind = "jwt"
    THEN generate_jwt(token.claims.user_id, token.claims.email, t1, t2)
    ELSE NoToken

\* refresh_jwt(token): jwt.decode with verify_exp off, then generate_jwt with
\* the payload's user_id and email; None on InvalidTokenError.  t1 <= t2 are
\* the readings of the clock by generate_jwt.
refresh_jwt(token, t1, t2) ==
    IF jwt_decode_error(token, JWT_SECRET, t1, FALSE) = "ok"
    THEN generate_jwt(token.claims.user_id, token.claims.email, t1, t2)
    ELSE NoToken

(***************************************************************************)
(* State.                                                                  *)
(***************************************************************************)
VARIABLES
    state_store,  \* auth/routes.py: state_store, state token -> redirect_uri
    next_state,   \* the next state token secrets.token_urlsafe(32) returns
    issued,       \* every state token google_init returned, with its redirect_uri
    initLog,      \* the google_init request just answered, and its response
    req,          \* the google_callback requests in flight, one per thread
    users,        \* the users table: row id -> [email, name]
    redeems,      \* per state token, the requests that got past line 94
    mints,        \* per state token, the session tokens returned for it
    now,          \* the clock, in ticks
    api_keys,     \* the api_key table: a set of rows
    minted,       \* the calls of generate_jwt made so far, with their results
    gate,         \* the request token_required has just answered, and its outcome
    tokenLog,     \* the token_verify2 / token_refresh2 request just answered
    ver,          \* the google_verify request in flight
    script,       \* the run of add_api_key.py in progress
    first_session, \* per e-mail, the first successful federation: flow and user_id
    cards,        \* the cards table: row id -> row
    expenses,     \* the expenses table: row id -> row
    res           \* the request to a resource route just answered

vars == <<state_store, next_state, issued, initLog, req, users, redeems, mints,
          now, api_keys, minted, gate, tokenLog, ver, script, first_session,
          cards, expenses, res>>

oauthVars == <<state_store, next_state, issued, initLog, req, users, redeems, mints>>
gateVars == <<now, api_keys, minted, gate, tokenLog>>
\* What the code-flow handler and google_init leave alone (a response of
\* google_verify leaves with their step, as every response does).
otherVars == <<now, api_keys, minted, gate, tokenLog, script,
               cards, expenses, res>>
\* What the gate and the token endpoints leave alone, the users table aside.
flowVars == <<state_store, next_state, issued, initLog, req, redeems, mints,
              ver, script, first_session, cards, expenses>>

\* The request threads of the server that can be inside google_callback at
\* the same time.
Threads == {"t1", "t2"}

Emails == {"e1", "e2"}
Names == {"n1", "n2"}

\* A state value no google_init ever returned, and the missing state field.
BogusState == 0
NoState == -1

NoRequest ==
    [pc |-> "idle", state |-> NoState, uri |-> None, stored |-> None,
     email |-> "", name |-> "", user |-> 0,
     status |-> 0, error |-> "", details |-> "", token |-> NoToken,
     late |-> FALSE, found |-> FALSE, passed |-> FALSE, calls |-> {},
     stages |-> << >>, created |-> FALSE, conflict |-> FALSE]

\* calls   : the stages the request entered (a set),
\* stages  : what each stage it entered returned, in the order of the calls,
\* created : the commit inserted a row,
\* conflict: the commit hit the unique constraint on users.email.
\* A response is visible in the state it was produced in; with the next
\* step of the system the thread that gave it is idle again.
Retire(rq) ==
    [t \in Threads |-> IF rq[t].pc = "done" THEN NoRequest ELSE rq[t]]

NoInit ==
    [seen |-> FALSE, uri |-> None, status |-> 0, error |-> "",
     state |-> NoState]

\* The google_verify request: where it is, what the ID token held, the row
\* its query found (0 for None), how its upsert ended ("", "failed" or
\* "committed"), its response, and what verify_oauth2_token made of the
\* ID token of its body.
NoVerify ==
    [pc |-> "idle", email |-> "", name |-> "", user |-> 0,
     status |-> 0, error |-> "", details |-> "", token |-> NoToken,
     created |-> FALSE, conflict |-> FALSE, db |-> "", id_token |-> ""]

RetireVerify(v) == IF v.pc = "done" THEN NoVerify ELSE v

\* The run of add_api_key.py: where it is ("commit": between the query and
\* the commit of upsert_user) and its arguments.
NoScript == [pc |-> "idle", email |-> "", key |-> "", user |-> 0]


(***************************************************************************)
(* GET /api/auth/google/init                                               *)
(***************************************************************************)
\* The error google_init answers with (status 400), "" when it goes on.
google_init_rejects(uri) ==
    IF Falsy(uri) THEN "redirect_uri is required"
    ELSE IF not_allowed(uri) THEN "Invalid redirect_uri"
    ELSE ""

\* `initLog` holds the request and its response in the state the request was
\* answered in; the response has left with the next step of the system.
\* A state token is a fresh value each time (32 random bytes); MaxStates of
\* them are handed out in a run.
google_init(uri) ==
    LET error == google_init_rejects(uri)
    IN  IF error # ""
        THEN /\ initLog' = [seen |-> TRUE, uri |-> uri, status |-> 400,
                            error |-> error, state |-> NoState]
             /\ UNCHANGED <<state_store, next_state, issued>>
        ELSE /\ next_state <= MaxStates
             /\ issued' = [s \in DOMAIN issued \cup {next_state} |->
                             IF s = next_state THEN uri ELSE issued[s]]
             /\ state_store' = [s \in DOMAIN state_store \cup {next_state} |->
                                  IF s = next_state THEN uri ELSE state_store[s]]
             /\ next_state' = next_state + 1
             /\ initLog' = [seen |-> TRUE, uri |-> uri, status |-> 200,
                            error |-> "", state |-> next_state]

GoogleInit ==
    /\ \E uri \in UriInputs : google_init(uri)
    /\ req' = Retire(req)
    /\ UNCHANGED <<users, redeems, mints, first_session>>
    /\ ver' = RetireVerify(ver)
    /\ UNCHANGED otherVars

(***************************************************************************)
(* POST /api/auth/google/callback, one action per access to shared state   *)
(* or to the identity provider; the local statements between two such      *)
(* accesses belong to the action before them.                              *)
(***************************************************************************)
Respond(r, status, error, details) ==
    [r EXCEPT !.pc = "done", !.status = status, !.error = error,
              !.details = details]

\* What a request body can hold: nothing, fields without a code, or a code
\* with the fields drawn below.
Bodies == {"empty", "no_code", "code"}

\* One entry of a request's `stages`.
Stage(stage, result) == [stage |-> stage, result |-> result]

\* Lines 67-87: the body and its fields, then `state_token not in state_store`.
\* (The requests library is installed: line 65 does not answer.)
CallbackStart(t) ==
    /\ req[t].pc \in {"idle", "done"}
    /\ \E body \in Bodies, uri \in CallbackUris,
          state \in {NoState, BogusState} \cup (1..(next_state - 1)) :
         LET r == [NoRequest EXCEPT
                     !.state = state, !.uri = uri,
                     !.late = (state \in DOMAIN redeems /\ redeems[state] > 0)]
         IN  req' = [Retire(req) EXCEPT ![t] =
               IF body = "empty"
               THEN Respond(r, 400, "Request body is required", "")
               ELSE IF body = "no_code"
               THEN Respond(r, 400, "Authorization code is required", "")
               ELSE IF state = NoState
               THEN Respond(r, 400, "State token is required", "")
               ELSE IF Falsy(uri)
               THEN Respond(r, 400, "redirect_uri is required", "")
               ELSE IF state \notin DOMAIN state_store
               THEN Respond(r, 400, "Invalid or expired state token", "")
               ELSE [r EXCEPT !.pc = "get", !.found = TRUE]]
    /\ initLog' = NoInit
    /\ UNCHANGED <<state_store, next_state, issued, users, redeems, mints>>
    /\ UNCHANGED first_session
    /\ ver' = RetireVerify(ver)
    /\ UNCHANGED otherVars

\* A mutation of redirect_mismatch: the comparison is left out.
redirect_mismatch_never(stored, presented) == FALSE

\* Line 90: stored_redirect_uri != mobile_redirect_uri
redirect_mismatch(stored, presented) == stored # presented

\* Lines 89-91: state_store.get(state_token), None when the key is gone.
CallbackGet(t) ==
    /\ req[t].pc = "get"
    /\ LET r == req[t]
           stored == IF r.state \in DOMAIN state_store
                     THEN state_store[r.state] ELSE None
       IN  req' = [Retire(req) EXCEPT ![t] =
             IF redirect_mismatch(stored, r.uri)
             THEN Respond([r EXCEPT !.stored = stored], 400,
                          "redirect_uri does not match state", "")
             ELSE [r EXCEPT !.stored = stored, !.pc = "del"]]
    /\ initLog' = NoInit
    /\ UNCHANGED <<state_store, next_state, issued, users, redeems, mints>>
    /\ UNCHANGED first_session
    /\ ver' = RetireVerify(ver)
    /\ UNCHANGED otherVars

\* A mutation of del_item: the entry is kept.
del_item_kept(store, key) == store

\* del store[key], for a key of the store.
del_item(store, key) == [s \in DOMAIN store \ {key} |-> store[s]]

\* A mutation of del_raises: a missing key is ignored, as pop(key, None) does.
del_raises_never(store, key) == FALSE

\* del store[key] raises KeyError for a key that is not in the store.
del_raises(store, key) == key \notin DOMAIN store

\* Lines 94-100: del state_store[state_token]; a KeyError is caught by the
\* handler's `except Exception` (line 185).  Then the allow-list test.
CallbackDel(t) ==
    /\ req[t].pc = "del"
    /\ LET r == req[t] IN
       IF del_raises(state_store, r.state)
       THEN /\ req' = [Retire(req) EXCEPT ![t] =
                         Respond(r, 500, "Internal server error", "exception")]
            /\ UNCHANGED <<state_store, redeems>>
       ELSE /\ state_store' = del_item(state_store, r.state)
            /\ redeems' = [redeems EXCEPT ![r.state] = @ + 1]
            /\ req' = [Retire(req) EXCEPT ![t] =
                 LET r2 == [r EXCEPT !.passed = TRUE,
                                     !.stages = Append(@, Stage("redeem", "ok"))]
                 IN  IF not_allowed(r.uri)
                     THEN Respond(r2, 400, "Invalid redirect_uri", "")
                     ELSE [r2 EXCEPT !.pc = "exchange"]]
    /\ initLog' = NoInit
    /\ UNCHANGED <<next_state, issued, users, mints, first_session>>
    /\ ver' = RetireVerify(ver)
    /\ UNCHANGED otherVars

\* A mutation of upstream_ok: a 200 answer is taken as it is, without looking
\* for the field the handler needs from it.
upstream_ok_any_200(outcome) == outcome \in {"ok", "incomplete"}

\* Lines 113 and 122, 130 and 144: the status is 200 and the answer holds
\* what the handler needs (access_token; id and email).
upstream_ok(outcome) == outcome = "ok"

\* What the identity provider can answer to a call.
UpstreamOutcomes == {"ok", "incomplete", "rejected", "rejected_not_json",
                     "network_error"}

\* The response to a failed upstream call; `what` and `incomplete` are the
\* messages of the call at hand.
UpstreamFailure(r, outcome, what, incomplete) ==
    CASE outcome = "rejected" -> Respond(r, 400, what, "upstream")
      [] outcome = "rejected_not_json" ->
            Respond(r, 500, "Internal server error", "exception")
      [] outcome = "network_error" ->
            Respond(r, 500, "Network error occurred", "exception")
      [] outcome = "incomplete" -> Respond(r, 400, incomplete, "")

\* Lines 102-123: requests.post(token_url), status and access_token.
CallbackExchange(t) ==
    /\ req[t].pc = "exchange"
    /\ \E outcome \in UpstreamOutcomes :
         LET r == [req[t] EXCEPT !.calls = @ \cup {"exchange"},
                                 !.stages = Append(@, Stage("exchange", outcome))]
         IN  req' = [Retire(req) EXCEPT ![t] =
               IF upstream_ok(outcome) THEN [r EXCEPT !.pc = "userinfo"]
               ELSE UpstreamFailure(r, outcome,
                      "Failed to exchange authorization code",
                      "No access token received from Google")]
    /\ initLog' = NoInit
    /\ UNCHANGED <<state_store, next_state, issued, users, redeems, mints>>
    /\ UNCHANGED first_session
    /\ ver' = RetireVerify(ver)
    /\ UNCHANGED otherVars

\* Lines 125-145: requests.get(userinfo_url), status, id and email.
CallbackUserinfo(t) ==
    /\ req[t].pc = "userinfo"
    /\ \E outcome \in UpstreamOutcomes, email \in Emails :
         LET r == [req[t] EXCEPT !.calls = @ \cup {"userinfo"},
                                 !.stages = Append(@, Stage("userinfo", outcome))]
         IN  req' = [Retire(req) EXCEPT ![t] =
               IF upstream_ok(outcome)
               THEN [r EXCEPT !.pc = "query", !.email = email]
               ELSE UpstreamFailure(r, outcome,
                      "Failed to fetch user information",
                      "Invalid user information from Google")]
    /\ initLog' = NoInit
    /\ UNCHANGED <<state_store, next_state, issued, users, redeems, mints>>
    /\ UNCHANGED first_session
    /\ ver' = RetireVerify(ver)
    /\ UNCHANGED otherVars

\* User.query.filter_by(email=email).first(): the row id, 0 for None.
user_by_email(email) ==
    IF \E i \in 1..Len(users) : users[i].email = email
    THEN CHOOSE i \in 1..Len(users) : users[i].email = email
    ELSE 0

DatabaseError(r) ==
    Respond(r, 500, "Database error occurred", "exception")

\* A mutation of unique_violation: the column carries no unique constraint.
unique_violation_never(rows, email) == FALSE

\* The unique constraint on users.email (models.py), as the database checks
\* it when an INSERT for `email` is flushed.
unique_violation(rows, email) ==
    \E i \in 1..Len(rows) : rows[i].email = email

\* A mutation of upsert_row: the found row is not updated, a row is added.
upsert_row_appends(rows, found, email, name) ==
    Append(rows, [email |-> email, name |-> name])

\* db.session.add(User(email, name)) when the query found no row (found = 0),
\* user.name = name otherwise: the table as the open transaction sees it.
upsert_row(rows, found, email, name) ==
    IF found = 0
    THEN Append(rows, [email |-> email, name |-> name])
    ELSE [rows EXCEPT ![found].name = name]

\* A mutation of rollback: what the failed transaction wrote stays.
rollback_kept(before, dirty) == dirty

\* db.session.rollback(): the table is as it was before the transaction.
rollback(before, dirty) == before

\* The row id the upsert ends with.
upsert_id(rows, found) == IF found = 0 THEN Len(rows) + 1 ELSE found

\* db.session.commit() of the upsert: [ok, conflict, rows].  It fails when
\* the database fails or when the INSERT violates the unique constraint.
commit_upsert(rows, found, email, name, db_fails) ==
    LET dirty == upsert_row(rows, found, email, name)
        conflict == found = 0 /\ unique_violation(rows, email)
    IN  IF db_fails \/ conflict
        THEN [ok |-> FALSE, conflict |-> conflict, rows |-> rollback(rows, dirty)]
        ELSE [ok |-> TRUE, conflict |-> FALSE, rows |-> dirty]

NoSession == [flow |-> "none", user_id |-> 0]

\* The record of the first successful federation of each e-mail address.
record_session(sessions, email, flow, id) ==
    IF sessions[email] = NoSession
    THEN [sessions EXCEPT ![email] = [flow |-> flow, user_id |-> id]]
    ELSE sessions

\* Line 149: the query; a failure of the database is caught at line 161.
CallbackQuery(t) ==
    /\ req[t].pc = "query"
    /\ \E db_fails \in BOOLEAN :
         LET r == [req[t] EXCEPT !.calls = @ \cup {"upsert"}]
         IN  req' = [Retire(req) EXCEPT ![t] =
               IF db_fails
               THEN DatabaseError([r EXCEPT
                      !.stages = Append(@, Stage("upsert", "failed"))])
               ELSE [r EXCEPT !.user = user_by_email(r.email), !.pc = "commit"]]
    /\ initLog' = NoInit
    /\ UNCHANGED <<state_store, next_state, issued, users, redeems, mints>>
    /\ UNCHANGED first_session
    /\ ver' = RetireVerify(ver)
    /\ UNCHANGED otherVars

\* Lines 151-181: insert or update, commit (the unique constraint on email is
\* checked there), rollback on failure; then generate_jwt and the response.
CallbackCommit(t) ==
    /\ req[t].pc = "commit"
    /\ \E db_fails \in BOOLEAN, name \in Names :
         LET r == [req[t] EXCEPT !.name = name]
             c == commit_upsert(users, r.user, r.email, name, db_fails)
             id == upsert_id(users, r.user)
         IN  /\ users' = c.rows
             /\ IF ~ c.ok
                THEN /\ req' = [Retire(req) EXCEPT ![t] =
                          DatabaseError([r EXCEPT
                             !.conflict = c.conflict,
                             !.stages = Append(@, Stage("upsert", "failed"))])]
                     /\ UNCHANGED <<mints, first_session>>
                ELSE /\ mints' = [mints EXCEPT ![r.state] = @ + 1]
                     /\ first_session' =
                          record_session(first_session, r.email, "code", id)
                     /\ req' = [Retire(req) EXCEPT ![t] =
                          [Respond(r, 200, "", "") EXCEPT
                             !.user = id,
                             !.created = (r.user = 0),
                             !.calls = @ \cup {"mint"},
                             !.stages = Append(@, Stage("upsert", "committed")),
                             !.token = generate_jwt(id, c.rows[id].email,
                                                    now, now)]]
    /\ initLog' = NoInit
    /\ UNCHANGED <<state_store, next_state, issued, redeems>>
    /\ ver' = RetireVerify(ver)
    /\ UNCHANGED otherVars

(***************************************************************************)
(* POST /api/auth/google/verify, one action per access to the database;    *)
(* the verification of the ID token reads no state of the server and       *)
(* belongs to the action of the query that follows it.                     *)
(***************************************************************************)
RespondVerify(v, status, error, details) ==
    [v EXCEPT !.pc = "done", !.status = status, !.error = error,
              !.details = details]

\* What a request body can hold: no id_token, or an ID token for which
\* id_token.verify_oauth2_token returns claims with an email ("ok"), returns
\* claims without one ("no_email"), raises ValueError (a token that does not
\* verify, "invalid"), or raises another exception (the provider's
\* certificates cannot be fetched, "fault").
IdTokens ==
    {[outcome |-> o, email |-> ""] :
        o \in {"missing", "no_email", "invalid", "fault"}}
        \cup {[outcome |-> "ok", email |-> e] : e \in Emails}

\* The query of line 307 for a verified ID token; a failure of the database
\* is caught at line 317, whose response carries no details.
verify_query(email, db_fails) ==
    IF db_fails
    THEN [RespondVerify([NoVerify EXCEPT !.email = email], 500,
                        "Database error occurred", "")
            EXCEPT !.db = "failed"]
    ELSE [NoVerify EXCEPT !.pc = "commit", !.email = email,
                          !.user = user_by_email(email)]

\* A mutation of verify_raised: a token that does not verify is answered
\* like any other fault.
verify_raised_uniform(outcome) ==
    RespondVerify(NoVerify, 500, "Internal server error", "exception")

\* Lines 299-303 and 338-344: the response when verify_oauth2_token raises.
\* ValueError is caught at line 299 and answered 401, its text part of the
\* message; anything else reaches the handler's last except clause.
verify_raised(outcome) ==
    IF outcome = "invalid"
    THEN RespondVerify(NoVerify, 401, "Invalid ID token", "exception")
    ELSE RespondVerify(NoVerify, 500, "Internal server error", "exception")

\* Lines 271-307: the body, the verification of the ID token, and the query.
VerifyStart ==
    /\ ver.pc \in {"idle", "done"}
    /\ \E id_token \in IdTokens, db_fails \in BOOLEAN :
         /\ db_fails => id_token.outcome = "ok"
         /\ ver' =
              [CASE id_token.outcome = "missing" ->
                      RespondVerify(NoVerify, 400, "id_token is required", "")
                 [] id_token.outcome = "ok" ->
                      verify_query(id_token.email, db_fails)
                 [] id_token.outcome = "no_email" ->
                      RespondVerify(NoVerify, 400,
                                    "Email not found in ID token", "")
                 [] id_token.outcome \in {"invalid", "fault"} ->
                      verify_raised(id_token.outcome)
               EXCEPT !.id_token = id_token.outcome]
    /\ req' = Retire(req)
    /\ initLog' = NoInit
    /\ UNCHANGED <<state_store, next_state, issued, users, redeems, mints>>
    /\ UNCHANGED first_session
    /\ UNCHANGED otherVars

\* Lines 309-336: insert or update, commit, rollback on failure; then
\* generate_jwt and the response.
VerifyCommit ==
    /\ ver.pc = "commit"
    /\ \E db_fails \in BOOLEAN, name \in Names :
         LET v == [ver EXCEPT !.name = name]
             c == commit_upsert(users, v.user, v.email, name, db_fails)
             id == upsert_id(users, v.user)
         IN  /\ users' = c.rows
             /\ IF ~ c.ok
                THEN /\ ver' = [RespondVerify(v, 500,
                                   "Database error occurred", "")
                                  EXCEPT !.conflict = c.conflict,
                                         !.db = "failed"]
                     /\ UNCHANGED first_session
                ELSE /\ first_session' =
                          record_session(first_session, v.email, "id_token", id)
                     /\ ver' = [RespondVerify(v, 200, "", "") EXCEPT
                                  !.user = id,
                                  !.created = (v.user = 0),
                                  !.db = "committed",
                                  !.token = generate_jwt(id, c.rows[id].email,
                                                         now, now)]
    /\ req' = Retire(req)
    /\ initLog' = NoInit
    /\ UNCHANGED <<state_store, next_state, issued, redeems, mints>>
    /\ UNCHANGED otherVars

(***************************************************************************)
(* The gate: token_required (jwt_helper.py) over the api_key table.        *)
(***************************************************************************)
\* Values of the X-Api-Key header: absent, a key the provisioning script
\* inserts, and a string that is never inserted.
NoApiKeyHeader == "absent"
KeyValues == {"sk_1"}
ApiKeyHeaders == {NoApiKeyHeader, "sk_unknown"} \cup KeyValues

\* e-mail addresses passed to generate_jwt, and to the provisioning script
GateEmails == {"e1", "e2"}
ScriptEmails == {"e1", "e2"}
UserIds == {1, 2}

\* The Authorization header is a sequence of pieces: the text 'Bearer ' and
\* tokens.  An absent header is none of these sequences.
Bearer == [kind |-> "Bearer "]
NoAuthorization == <<[kind |-> "absent"]>>

\* The token with the user_id claim rewritten and the signature kept.
Tampered(token) ==
    [token EXCEPT !.claims.user_id = IF @ = 1 THEN 2 ELSE 1]

\* The token's claims signed with a key that is not the server's.
Forged(token) ==
    [token EXCEPT !.sig = HS256(ForeignSecret, token.claims)]

\* The tokens a client can put into a request: the ones handed out, their
\* tampered and forged variants, and a malformed string.
Candidates ==
    {Malformed} \cup UNION {{m.token, Tampered(m.token), Forged(m.token)} :
                              m \in minted}

AuthorizationHeaders ==
    {NoAuthorization, << >>, <<Bearer>>}
        \cup {<<Bearer, tok>> : tok \in Candidates}
        \cup {<<m.token>> : m \in minted}

\* header.replace('Bearer ', ''): every occurrence of the text is removed; what
\* is left is '' (NoToken), one token, or text that is no token.
replace_bearer(header) ==
    LET rest == SelectSeq(header, LAMBDA piece : piece # Bearer)
    IN  IF Len(rest) = 0 THEN NoToken
        ELSE IF Len(rest) = 1 THEN rest[1]
        ELSE Malformed

NoRow == [kind |-> "none"]

\* APIKey.query.filter_by(key=token).first(); key is unique.
api_key_by_key(keys, value) ==
    IF \E k \in keys : k.key = value
    THEN CHOOSE k \in keys : k.key = value
    ELSE NoRow

Reject(error, decoded) ==
    [status |-> 401, error |-> error, handler |-> FALSE, via |-> "",
     principal |-> 0, claims |-> NoPayload, decoded |-> decoded]

\* f(arg, ...) is called: the response is the handler's (status 0 here).
Call(via, principal, claims, decoded) ==
    [status |-> 0, error |-> "", handler |-> TRUE, via |-> via,
     principal |-> principal, claims |-> claims, decoded |-> decoded]

\* Lines 66-77 of token_required: the bearer branch.
bearer_branch(authorization, t) ==
    LET token == IF authorization # NoAuthorization
                 THEN replace_bearer(authorization) ELSE NoToken
        payload == decode_jwt(token, t)
    IN  IF token = NoToken THEN Reject("Token is missing", FALSE)
        ELSE IF payload = NoPayload
        THEN Reject("Token is invalid or expired", TRUE)
        ELSE Call("bearer", payload.user_id, payload, TRUE)

\* A mutation of token_required: an unknown API key falls through to the
\* bearer branch.
token_required_fallthrough(api_key, authorization, keys, t) ==
    LET key == api_key_by_key(keys, api_key)
    IN  IF api_key # NoApiKeyHeader /\ key # NoRow
        THEN Call("api_key", key.user_id, NoPayload, FALSE)
        ELSE bearer_branch(authorization, t)

\* A mutation of token_required: a request without a token is not answered
\* before decode_jwt is tried.
token_required_no_missing(api_key, authorization, keys, t) ==
    LET key == api_key_by_key(keys, api_key)
        token == IF authorization # NoAuthorization
                 THEN replace_bearer(authorization) ELSE NoToken
        payload == decode_jwt(token, t)
    IN  IF api_key # NoApiKeyHeader
        THEN IF key = NoRow THEN Reject("Invalid API key", FALSE)
             ELSE Call("api_key", key.user_id, NoPayload, FALSE)
        ELSE IF payload = NoPayload
        THEN Reject("Token is invalid or expired", TRUE)
        ELSE Call("bearer", payload.user_id, payload, TRUE)

\* token_required's decorated(): the outcome for a request with these two
\* headers, with the api_key table `keys`, at clock reading t.  With an
\* X-Api-Key header the handler is called with the APIKey row (whose user_id
\* is the principal), otherwise with the token's payload.
token_required(api_key, authorization, keys, t) ==
    LET key == api_key_by_key(keys, api_key)
    IN  IF api_key # NoApiKeyHeader
        THEN IF key = NoRow THEN Reject("Invalid API key", FALSE)
             ELSE Call("api_key", key.user_id, NoPayload, FALSE)
        ELSE bearer_branch(authorization, t)

NoGate ==
    [seen |-> FALSE, api_key |-> NoApiKeyHeader,
     authorization |-> NoAuthorization, out |-> Reject("", FALSE)]

\* The request a token endpoint has answered: the endpoint, the token of the
\* body, the Authorization header when the endpoint read it, and the
\* response (status, error, the payload's user_id and email, the new token);
\* for token_refresh2 also the instant at which it decoded the token.
NoTokenLog ==
    [seen |-> FALSE, endpoint |-> "", body |-> NoToken,
     authorization |-> NoAuthorization, at |-> 0, status |-> 0, error |-> "",
     user_id |-> 0, email |-> "", token |-> NoToken]

\* JSON values of a request body: a key that is not there, null, a number, a
\* string.
Absent == [kind |-> "absent"]
Null == [kind |-> "null"]
Num(v) == [kind |-> "num", v |-> v]
Str(s) == [kind |-> "str", s |-> s]

\* Rows that are no longer in their table; row ids are never given twice.
NoUser == [email |-> "", name |-> ""]
NoCard == [kind |-> "none"]
NoExpense == [kind |-> "none"]

\* The request to a resource route just answered: the route's handler, the
\* two credential headers, what the gate made of them, the id in the path,
\* the row with that id when the request arrived, the body, and the
\* response (status, message, for a list the ids of its items).
NoRes ==
    [seen |-> FALSE, op |-> "", api_key |-> NoApiKeyHeader,
     authorization |-> NoAuthorization, handler |-> FALSE, via |-> "",
     principal |-> 0, target |-> 0, before |-> NoExpense,
     payload |-> Absent, status |-> 0, message |-> "", items |-> {}]

\* A request to a protected route is answered.  `gate` holds the request and
\* its outcome in the state the request was answered in; the response has
\* left with the next step of the system.
GateRequest ==
    /\ \E api_key \in ApiKeyHeaders, authorization \in AuthorizationHeaders :
         gate' = [seen |-> TRUE, api_key |-> api_key,
                  authorization |-> authorization,
                  out |-> token_required(api_key, authorization, api_keys, now)]
    /\ tokenLog' = NoTokenLog
    /\ UNCHANGED <<now, api_keys, minted, users>>
    /\ UNCHANGED flowVars
    /\ UNCHANGED res

\* The clock advances.
Tick ==
    /\ now < MaxTime
    /\ now' = now + 1
    /\ gate' = NoGate
    /\ tokenLog' = NoTokenLog
    /\ UNCHANGED <<api_keys, minted, users>>
    /\ UNCHANGED flowVars
    /\ UNCHANGED res

\* A call of generate_jwt; the clock may advance by a tick between its two
\* readings of utcnow().
GenerateJwt ==
    /\ Cardinality(minted) < MaxMint
    /\ \E user_id \in UserIds, email \in GateEmails, d \in {0, 1} :
         /\ now + d <= MaxTime
         /\ now' = now + d
         /\ minted' = minted \cup
               {[user_id |-> user_id, email |-> email, at |-> now,
                 token |-> generate_jwt(user_id, email, now, now + d)]}
    /\ gate' = NoGate
    /\ tokenLog' = NoTokenLog
    /\ UNCHANGED <<api_keys, users>>
    /\ UNCHANGED flowVars
    /\ UNCHANGED res

\* The requests to a token endpoint: a token in the body (the header is
\* not read then), or none and any Authorization header.
TokenRequests ==
    {[body |-> tok, authorization |-> NoAuthorization] : tok \in Candidates}
        \cup {[body |-> NoToken, authorization |-> a] :
                 a \in AuthorizationHeaders}

\* `auth_header and auth_header.startswith('Bearer ')`
starts_with_bearer(authorization) ==
    /\ authorization # NoAuthorization
    /\ Len(authorization) > 0
    /\ authorization[1] = Bearer

\* Lines 369-377 and 433-441: the token of the body, else the one of an
\* Authorization header that starts with 'Bearer '.
request_token(body, authorization) ==
    IF body # NoToken THEN body
    ELSE IF starts_with_bearer(authorization)
    THEN replace_bearer(authorization)
    ELSE NoToken

\* The Authorization header as far as the endpoint reads it.
header_read(body, authorization) ==
    IF body # NoToken THEN NoAuthorization ELSE authorization

\* A mutation of token_verify2: an expired token is told apart from the
\* other failures.
token_verify2_oracle(body, authorization, t) ==
    LET token == request_token(body, authorization)
        payload == decode_jwt(token, t)
        log == [NoTokenLog EXCEPT
                  !.seen = TRUE, !.endpoint = "verify2", !.body = body,
                  !.authorization = header_read(body, authorization)]
    IN  IF token = NoToken
        THEN [log EXCEPT !.status = 400, !.error = "token is required"]
        ELSE IF jwt_decode_error(token, JWT_SECRET, t, TRUE)
                  = "ExpiredSignatureError"
        THEN [log EXCEPT !.status = 401, !.error = "Token has expired"]
        ELSE IF payload = NoPayload
        THEN [log EXCEPT !.status = 401,
                         !.error = "Token is invalid or expired"]
        ELSE [log EXCEPT !.status = 200, !.user_id = payload.user_id,
                         !.email = payload.email]

\* token_verify2(): the response to a request with this body and this
\* header at clock reading t.
token_verify2(body, authorization, t) ==
    LET token == request_token(body, authorization)
        payload == decode_jwt(token, t)
        log == [NoTokenLog EXCEPT
                  !.seen = TRUE, !.endpoint = "verify2", !.body = body,
                  !.authorization = header_read(body, authorization)]
    IN  IF token = NoToken
        THEN [log EXCEPT !.status = 400, !.error = "token is required"]
        ELSE IF payload = NoPayload
        THEN [log EXCEPT !.status = 401,
                         !.error = "Token is invalid or expired"]
        ELSE [log EXCEPT !.status = 200, !.user_id = payload.user_id,
                         !.email = payload.email]

TokenVerify2 ==
    /\ \E r \in TokenRequests :
         tokenLog' = token_verify2(r.body, r.authorization, now)
    /\ gate' = NoGate
    /\ UNCHANGED <<now, api_keys, minted, users>>
    /\ UNCHANGED flowVars
    /\ UNCHANGED res

\* token_refresh2(): the response to a request with this body and this
\* header; t1 <= t2 are the clock readings of generate_jwt.
token_refresh2(body, authorization, t1, t2) ==
    LET token == request_token(body, authorization)
        new_token == refresh_jwt(token, t1, t2)
        log == [NoTokenLog EXCEPT
                  !.seen = TRUE, !.endpoint = "refresh2", !.body = body,
                  !.authorization = header_read(body, authorization),
                  !.at = t1]
    IN  IF token = NoToken
        THEN [log EXCEPT !.status = 400, !.error = "token is required"]
        ELSE IF new_token = NoToken
        THEN [log EXCEPT !.status = 401,
                !.error = "Token is invalid and cannot be refreshed"]
        ELSE [log EXCEPT !.status = 200, !.token = new_token]

\* The clock may advance by a tick between the two readings of utcnow().
TokenRefresh2 ==
    /\ \E r \in TokenRequests, d \in {0, 1} :
         /\ now + d <= MaxTime
         /\ now' = now + d
         /\ tokenLog' = token_refresh2(r.body, r.authorization, now, now + d)
    /\ gate' = NoGate
    /\ UNCHANGED <<api_keys, minted, users>>
    /\ UNCHANGED flowVars
    /\ UNCHANGED res

\* email.split("@")[0] for the addresses of the model, which hold no "@".
local_part(email) == email

\* add_api_key.py main(): upsert_user(email), then insert_api_key(user, key).
AddApiKey ==
    /\ \E email \in ScriptEmails, key \in KeyValues :
         LET found == user_by_email(email)
             id == IF found # 0 THEN found ELSE Len(users) + 1
         IN  /\ users' = IF found # 0 THEN users
                         ELSE Append(users, [email |-> email,
                                             name |-> local_part(email)])
             /\ api_keys' = IF api_key_by_key(api_keys, key) # NoRow
                            THEN api_keys
                            ELSE api_keys \cup
                                   {[kind |-> "row", key |-> key,
                                     user_id |-> id, is_active |-> TRUE]}
    /\ gate' = NoGate
    /\ tokenLog' = NoTokenLog
    /\ UNCHANGED <<now, minted>>
    /\ UNCHANGED flowVars
    /\ res' = NoRes

\* An administrator clears is_active of a key.
DeactivateKey ==
    /\ \E k \in api_keys :
         /\ k.is_active
         /\ api_keys' = (api_keys \ {k}) \cup {[k EXCEPT !.is_active = FALSE]}
    /\ gate' = NoGate
    /\ tokenLog' = NoTokenLog
    /\ UNCHANGED <<now, minted, users>>
    /\ UNCHANGED flowVars
    /\ UNCHANGED res

\* insert_api_key(user, key), lines 19-31: the table after it.
insert_api_key(keys, user_id, key) ==
    IF api_key_by_key(keys, key) # NoRow
    THEN keys
    ELSE keys \cup {[kind |-> "row", key |-> key, user_id |-> user_id,
                     is_active |-> TRUE]}

\* add_api_key.py, upsert_user lines 10-12: the query.  With a row found,
\* main() goes on to insert_api_key, which touches no table a federation
\* touches, and ends.
ScriptQuery ==
    /\ script.pc = "idle"
    /\ \E email \in ScriptEmails, key \in KeyValues :
         LET found == user_by_email(email)
         IN  IF found # 0
             THEN /\ api_keys' = insert_api_key(api_keys, found, key)
                  /\ script' = NoScript
             ELSE /\ script' = [pc |-> "commit", email |-> email,
                                key |-> key, user |-> 0]
                  /\ UNCHANGED api_keys
    /\ req' = Retire(req)
    /\ ver' = RetireVerify(ver)
    /\ initLog' = NoInit
    /\ UNCHANGED <<state_store, next_state, issued, users, redeems, mints>>
    /\ UNCHANGED <<first_session, now, minted, gate, tokenLog>>
    /\ UNCHANGED <<cards, expenses, res>>

\* upsert_user lines 13-15: add and commit, then insert_api_key.  Nothing
\* catches a failure of the commit: the script ends with the exception and
\* the transaction is discarded with its session.
ScriptCommit ==
    /\ script.pc = "commit"
    /\ \E db_fails \in BOOLEAN :
         LET c == commit_upsert(users, 0, script.email,
                                local_part(script.email), db_fails)
         IN  /\ users' = c.rows
             /\ api_keys' = IF c.ok
                            THEN insert_api_key(api_keys, upsert_id(users, 0),
                                                script.key)
                            ELSE api_keys
    /\ script' = NoScript
    /\ req' = Retire(req)
    /\ ver' = RetireVerify(ver)
    /\ initLog' = NoInit
    /\ UNCHANGED <<state_store, next_state, issued, redeems, mints>>
    /\ UNCHANGED <<first_session, now, minted, gate, tokenLog>>
    /\ UNCHANGED <<cards, expenses, res>>

NextGate ==
    \/ GateRequest
    \/ Tick
    \/ GenerateJwt
    \/ AddApiKey
    \/ DeactivateKey

\* The codec under the clock: the gate and the two token endpoints.
NextToken ==
    \/ Tick
    \/ GenerateJwt
    \/ GateRequest
    \/ TokenVerify2
    \/ TokenRefresh2


Init ==
    /\ state_store = << >>
    /\ next_state = 1
    /\ issued = << >>
    /\ initLog = NoInit
    /\ req = [t \in Threads |-> NoRequest]
    /\ users = << >>
    /\ redeems = [s \in 1..MaxStates |-> 0]
    /\ mints = [s \in 1..MaxStates |-> 0]
    /\ now = 0
    /\ api_keys = {}
    /\ minted = {}
    /\ gate = NoGate
    /\ tokenLog = NoTokenLog
    /\ ver = NoVerify
    /\ script = NoScript
    /\ first_session = [e \in Emails |-> NoSession]
    /\ cards = << >>
    /\ expenses = << >>
    /\ res = NoRes

Next ==
    \/ GoogleInit
    \/ \E t \in Threads : CallbackStart(t)
    \/ \E t \in Threads : CallbackGet(t)
    \/ \E t \in Threads : CallbackDel(t)
    \/ \E t \in Threads : CallbackExchange(t)
    \/ \E t \in Threads : CallbackUserinfo(t)
    \/ \E t \in Threads : CallbackQuery(t)
    \/ \E t \in Threads : CallbackCommit(t)

Spec == Init /\ [][Next]_vars

SpecGate == Init /\ [][NextGate]_vars

SpecToken == Init /\ [][NextToken]_vars

\* One google_callback request at a time, next to google_verify.
NextFed ==
    \/ GoogleInit
    \/ CallbackStart("t1")
    \/ CallbackGet("t1")
    \/ CallbackDel("t1")
    \/ CallbackExchange("t1")
    \/ CallbackUserinfo("t1")
    \/ CallbackQuery("t1")
    \/ CallbackCommit("t1")
    \/ VerifyStart
    \/ VerifyCommit

SpecFed == Init /\ [][NextFed]_vars

\* The two federation endpoints next to a run of the provisioning script.
NextProv ==
    \/ NextFed
    \/ ScriptQuery
    \/ ScriptCommit

SpecProv == Init /\ [][NextProv]_vars

(***************************************************************************)
(* The resource routes: expenses (app/api/expenses/routes.py) and cards    *)
(* (app/api/cards/routes.py) behind token_required.  A handler and the     *)
(* transaction it commits are one step.                                    *)
(***************************************************************************)
\* Rows the cards table ever holds, rows the expenses table ever holds, and
\* users ever deleted.
MaxCards == 1
MaxExpenses == 1
MaxDeleted == 1

\* create_app(): the blueprints it registers.
registered_blueprints == {"auth", "expenses"}

\* The session tokens of the users, minted at the start of the clock.
SessionEmail(user_id) == IF user_id = 1 THEN "e1" ELSE "e2"
Sessions == {generate_jwt(u, SessionEmail(u), 0, 0) : u \in UserIds}

\* The credential headers of a request: none, an API key, a bearer token.
Credentials ==
    {[api_key |-> NoApiKeyHeader, authorization |-> NoAuthorization]}
        \cup {[api_key |-> k, authorization |-> NoAuthorization] :
                 k \in KeyValues}
        \cup {[api_key |-> NoApiKeyHeader, authorization |-> <<Bearer, s>>] :
                 s \in Sessions}

\* The rows of the categories table, by slug, as the tests seed them.
categories == {"investment", "wants", "need"}

ALLOWED_EXPENSE_TYPES == {"investment", "wants", "need"}
DEFAULT_EXPENSE_TYPES == {"investment", "wants", "need"}

\* Python truthiness of a JSON value read with dict.get.
falsy(value) ==
    \/ value \in {Absent, Null, Str("")}
    \/ value = Num(0)

\* The numerals among the strings of the model, with their values.
Numerals == [s \in {"5", "12"} |-> IF s = "5" THEN 5 ELSE 12]

\* float(value) and int(value): the number, or no number when the call
\* raises TypeError or ValueError.
NoNumber == [ok |-> FALSE, v |-> 0]
float(value) ==
    IF value.kind = "num" THEN [ok |-> TRUE, v |-> value.v]
    ELSE IF value.kind = "str" /\ value.s \in DOMAIN Numerals
    THEN [ok |-> TRUE, v |-> Numerals[value.s]]
    ELSE NoNumber

\* value.strip().lower() for the strings of the model.
strip_lower(s) == IF s = " Need" THEN "need" ELSE s

\* validate_expense(data, require_type=...): the list of error messages.
validate_expense(data, require_type) ==
    LET title == IF falsy(data.title) THEN <<"Title is required.">> ELSE << >>
        amount == IF data.amount \in {Absent, Null} \/ ~ float(data.amount).ok
                  THEN <<"Amount must be a number.">> ELSE << >>
        category == IF falsy(data.category)
                    THEN <<"Category is required.">> ELSE << >>
        allowed == {Str(t) : t \in DEFAULT_EXPENSE_TYPES}
        type == IF require_type
                THEN IF falsy(data.type) THEN <<"type is required.">>
                     ELSE IF data.type \notin allowed
                     THEN <<"type must be one of">> ELSE << >>
                ELSE IF data.type \notin {Absent, Null}
                        /\ data.type \notin allowed
                THEN <<"type must be one of">> ELSE << >>
    IN  title \o amount \o category \o type

\* _normalize_expense_type(value): the slug of the Category row, "" for None.
_normalize_expense_type(value) ==
    IF value.kind # "str" THEN ""
    ELSE IF strip_lower(value.s) \notin ALLOWED_EXPENSE_TYPES THEN ""
    ELSE IF strip_lower(value.s) \in categories THEN strip_lower(value.s)
    ELSE ""

\* _extract_user_id(user_payload) of the expenses blueprint: the user_id of
\* a token's payload; None (0) for what is not a dict, the APIKey row.
_extract_user_id(out) ==
    IF out.via = "bearer" THEN out.claims.user_id ELSE 0

\* _load_card_for_user(card_id, user_id): the id of the card, 0 for None.
_load_card_for_user(card_id, user_id, cds) ==
    IF card_id \in {Absent, Null} \/ ~ float(card_id).ok THEN 0
    ELSE IF /\ float(card_id).v \in DOMAIN cds
            /\ cds[float(card_id).v] # NoCard
            /\ cds[float(card_id).v].user_id = user_id
    THEN float(card_id).v
    ELSE 0

\* _parse_date(value): whether datetime.fromisoformat accepts the string.
_parse_date(value) == value = Str("2024-01-01")

\* What a handler answers, and the table it leaves.
Answer(status, message, rows) ==
    [status |-> status, message |-> message, rows |-> rows]

\* A mutation of expense_of_user: the query filters by id alone.
expense_of_user_any(exps, expense_id, user_id) ==
    /\ expense_id \in DOMAIN exps
    /\ exps[expense_id] # NoExpense

\* Expense.query.filter_by(id=expense_id, user_id=user_id).first(): found.
expense_of_user(exps, expense_id, user_id) ==
    /\ expense_id \in DOMAIN exps
    /\ exps[expense_id] # NoExpense
    /\ exps[expense_id].user_id = user_id

\* create_expense(user_payload) with this body: the response and the
\* expenses table after it.
create_expense(out, payload, exps, cds, db_fails) ==
    LET category == _normalize_expense_type(payload.category)
        user_id == _extract_user_id(out)
        card == _load_card_for_user(payload.card_id, user_id, cds)
        expense == [kind |-> "row", user_id |-> user_id,
                    title |-> payload.title.s,
                    amount |-> float(payload.amount).v,
                    category |-> category, card_id |-> card,
                    date |-> IF payload.date \in {Absent, Null}
                             THEN "utc_now" ELSE payload.date.s]
    IN  IF validate_expense(payload, TRUE) # << >>
        THEN Answer(400, "Validation failed.", exps)
        ELSE IF category = ""
        THEN Answer(400, "Invalid expense type.", exps)
        ELSE IF user_id = 0
        THEN Answer(401, "Authentication required.", exps)
        ELSE IF card = 0
        THEN Answer(404, "Card not found.", exps)
        ELSE IF payload.date \notin {Absent, Null} /\ ~ _parse_date(payload.date)
        THEN Answer(400, "Invalid date format. Use ISO 8601 format.", exps)
        ELSE IF db_fails
        THEN Answer(400, "Failed to create expense due to a server error.",
                    exps)
        ELSE Answer(201, "Expense created successfully.",
                    Append(exps, expense))

\* list_expenses(user_payload) with this category filter and the default
\* page, a page that holds every row of the model: the response and the ids
\* of its items.
list_expenses(out, raw_category, exps) ==
    LET category_row == _normalize_expense_type(raw_category)
        user_id == _extract_user_id(out)
        filtered == ~ falsy(raw_category)
        items == {i \in DOMAIN exps :
                    /\ exps[i] # NoExpense
                    /\ exps[i].user_id = user_id
                    /\ filtered => exps[i].category = category_row}
    IN  IF filtered /\ category_row = ""
        THEN [status |-> 400, message |-> "Invalid expense type.",
              items |-> {}]
        ELSE IF user_id = 0
        THEN [status |-> 401, message |-> "Authentication required.",
              items |-> {}]
        ELSE [status |-> 200, message |-> "Expenses retrieved successfully.",
              items |-> items]

\* get_expense(user_payload, expense_id)
get_expense(out, expense_id, exps) ==
    LET user_id == _extract_user_id(out)
    IN  IF user_id = 0
        THEN [status |-> 401, message |-> "Authentication required.",
              items |-> {}]
        ELSE IF ~ expense_of_user(exps, expense_id, user_id)
        THEN [status |-> 404, message |-> "Expense not found.", items |-> {}]
        ELSE [status |-> 200, message |-> "Expense retrieved successfully.",
              items |-> {expense_id}]

\* update_expense(user_payload, expense_id) with this body: the response
\* and the expenses table after it.  merged_payload has no "type".
update_expense(out, expense_id, payload, exps, cds, db_fails) ==
    LET user_id == _extract_user_id(out)
        expense == exps[expense_id]
        category_row == IF payload.category # Absent
                        THEN _normalize_expense_type(payload.category)
                        ELSE expense.category
        merged_payload ==
            [title |-> IF payload.title # Absent THEN payload.title
                       ELSE Str(expense.title),
             amount |-> IF payload.amount # Absent THEN payload.amount
                        ELSE Num(expense.amount),
             category |-> IF category_row # "" THEN Str(category_row)
                          ELSE Null,
             type |-> Absent]
        card == _load_card_for_user(payload.card_id, user_id, cds)
        date_given == payload.date # Absent
        updated ==
            [expense EXCEPT
               !.title = IF payload.title # Absent THEN payload.title.s ELSE @,
               !.amount = IF payload.amount # Absent
                          THEN float(payload.amount).v ELSE @,
               !.category = category_row,
               !.card_id = IF payload.card_id # Absent THEN card ELSE @,
               !.date = IF date_given /\ _parse_date(payload.date)
                        THEN payload.date.s ELSE @]
    IN  IF user_id = 0
        THEN Answer(401, "Authentication required.", exps)
        ELSE IF ~ expense_of_user(exps, expense_id, user_id)
        THEN Answer(404, "Expense not found.", exps)
        ELSE IF payload.category # Absent /\ category_row = ""
        THEN Answer(400, "Invalid expense type.", exps)
        ELSE IF validate_expense(merged_payload, TRUE) # << >>
        THEN Answer(400, "Validation failed.", exps)
        ELSE IF payload.card_id # Absent /\ card = 0
        THEN Answer(404, "Card not found.", exps)
        ELSE IF date_given /\ payload.date # Null /\ ~ _parse_date(payload.date)
        THEN Answer(400, "Invalid date format. Use ISO 8601 format.", exps)
        ELSE IF db_fails
        THEN Answer(400, "Failed to update expense due to a server error.",
                    exps)
        ELSE Answer(200, "Expense updated successfully.",
                    [exps EXCEPT ![expense_id] = updated])

\* delete_expense(user_payload, expense_id)
delete_expense(out, expense_id, exps, db_fails) ==
    LET user_id == _extract_user_id(out)
    IN  IF user_id = 0
        THEN Answer(401, "Authentication required.", exps)
        ELSE IF ~ expense_of_user(exps, expense_id, user_id)
        THEN Answer(404, "Expense not found.", exps)
        ELSE IF db_fails
        THEN Answer(400, "Failed to delete expense due to a server error.",
                    exps)
        ELSE Answer(200, "Expense deleted successfully.",
                    [exps EXCEPT ![expense_id] = NoExpense])

ALLOWED_CARD_TYPES == {"credit", "debit", "prepaid"}

\* _extract_user_id(user_payload) of the cards blueprint, which knows the
\* APIKey row.
cards_extract_user_id(out) ==
    IF out.via = "api_key" THEN out.principal
    ELSE IF out.via = "bearer" THEN out.claims.user_id
    ELSE 0

\* _parse_decimal(value, field_name, errors): the Decimal (Null for None),
\* and whether an error was appended.
_parse_decimal(value) ==
    IF value \in {Absent, Null} THEN [value |-> Null, error |-> FALSE]
    ELSE IF float(value).ok
    THEN [value |-> Num(float(value).v), error |-> FALSE]
    ELSE [value |-> Null, error |-> TRUE]

\* dict.get(key) on the normalized data: None for a key that is not there.
get(value) == IF value = Absent THEN Null ELSE value

\* _validate_card_payload(payload, partial=...): the normalized data (Absent
\* for a key it does not hold) and the list of errors.
_validate_card_payload(payload, partial) ==
    LET name_ok == payload.name.kind = "str" /\ payload.name # Str("")
        name_read == ~ partial \/ payload.name # Absent
        type_read == ~ partial \/ payload.type # Absent
        card_type == IF ~ type_read THEN ""
                     ELSE IF payload.type.kind = "str" THEN payload.type.s
                     ELSE ""
        type_ok == card_type \in ALLOWED_CARD_TYPES
        number(value) == IF value = Absent THEN Absent
                         ELSE _parse_decimal(value).value
        bad(value) == value # Absent /\ _parse_decimal(value).error
        normalized ==
            [name |-> IF name_read /\ name_ok THEN payload.name ELSE Absent,
             type |-> IF type_read /\ type_ok THEN Str(card_type) ELSE Absent,
             limit |-> number(payload.limit),
             total_balance |-> number(payload.total_balance),
             balance_left |-> number(payload.balance_left)]
        total_balance == get(normalized.total_balance)
        balance_left == get(normalized.balance_left)
        errors ==
            (IF name_read /\ ~ name_ok
             THEN <<"name is required and must be a string.">> ELSE << >>)
            \o (IF type_read /\ ~ type_ok
                THEN <<"type must be one of: credit, debit, prepaid.">>
                ELSE << >>)
            \o (IF bad(payload.limit)
                THEN <<"limit must be a numeric value.">> ELSE << >>)
            \o (IF bad(payload.total_balance)
                THEN <<"total_balance must be a numeric value.">> ELSE << >>)
            \o (IF bad(payload.balance_left)
                THEN <<"balance_left must be a numeric value.">> ELSE << >>)
            \o (IF card_type = "credit" /\ get(normalized.limit) = Null
                THEN <<"limit is required for credit cards.">> ELSE << >>)
            \o (IF card_type = "prepaid" /\ total_balance = Null
                THEN <<"total_balance is required for prepaid cards.">>
                ELSE << >>)
            \o (IF card_type = "prepaid" /\ balance_left = Null
                THEN <<"balance_left is required for prepaid cards.">>
                ELSE << >>)
            \o (IF /\ card_type = "prepaid"
                   /\ total_balance # Null
                   /\ balance_left # Null
                   /\ balance_left.v > total_balance.v
                THEN <<"balance_left cannot exceed total_balance.">>
                ELSE << >>)
    IN  [data |-> normalized, errors |-> errors]

\* create_card(user_payload) with this body: the response and the cards
\* table after it.
create_card(out, payload, cds, db_fails) ==
    LET v == _validate_card_payload(payload, FALSE)
        user_id == cards_extract_user_id(out)
        card == [kind |-> "row", user_id |-> user_id,
                 name |-> v.data.name.s, type |-> v.data.type.s,
                 credit_limit |-> get(v.data.limit),
                 total_balance |-> get(v.data.total_balance),
                 balance_left |-> get(v.data.balance_left)]
    IN  IF v.errors # << >> THEN Answer(400, "Validation failed.", cds)
        ELSE IF user_id = 0 THEN Answer(401, "Authentication required.", cds)
        ELSE IF db_fails
        THEN Answer(500, "Failed to create card due to a server error.", cds)
        ELSE Answer(201, "Card created successfully.", Append(cds, card))

\* Card.query.filter_by(id=card_id, user_id=user_id).first(): found.
card_of_user(cds, card_id, user_id) ==
    /\ card_id \in DOMAIN cds
    /\ cds[card_id] # NoCard
    /\ cds[card_id].user_id = user_id

\* update_card(user_payload, card_id) with this body.  What it assigned to
\* the card before it answers 400 is never committed.
update_card(out, card_id, payload, cds, db_fails) ==
    LET user_id == cards_extract_user_id(out)
        v == _validate_card_payload(payload, TRUE)
        set(old, new) == IF new = Absent THEN old ELSE new
        card == [cds[card_id] EXCEPT
                   !.name = IF v.data.name = Absent THEN @ ELSE v.data.name.s,
                   !.type = IF v.data.type = Absent THEN @ ELSE v.data.type.s,
                   !.credit_limit = set(@, v.data.limit),
                   !.total_balance = set(@, v.data.total_balance),
                   !.balance_left = set(@, v.data.balance_left)]
        kept == IF card.type = "credit"
                THEN [card EXCEPT !.total_balance = Null,
                                  !.balance_left = Null]
                ELSE IF card.type = "prepaid"
                THEN [card EXCEPT !.credit_limit = Null]
                ELSE [card EXCEPT !.credit_limit = Null,
                                  !.total_balance = Null,
                                  !.balance_left = Null]
    IN  IF user_id = 0 THEN Answer(401, "Authentication required.", cds)
        ELSE IF ~ card_of_user(cds, card_id, user_id)
        THEN Answer(404, "Card not found.", cds)
        ELSE IF v.errors # << >> THEN Answer(400, "Validation failed.", cds)
        ELSE IF card.type = "credit" /\ card.credit_limit = Null
        THEN Answer(400, "Validation failed.", cds)
        ELSE IF /\ card.type = "prepaid"
                /\ (card.total_balance = Null \/ card.balance_left = Null)
        THEN Answer(400, "Validation failed.", cds)
        ELSE IF /\ card.type = "prepaid"
                /\ card.balance_left.v > card.total_balance.v
        THEN Answer(400, "Validation failed.", cds)
        ELSE IF db_fails
        THEN Answer(500, "Failed to update card due to a server error.", cds)
        ELSE Answer(200, "Card updated successfully.",
                    [cds EXCEPT ![card_id] = kept])

\* card.expenses.count()
expenses_count(exps, card_id) ==
    Cardinality({i \in DOMAIN exps :
                   exps[i] # NoExpense /\ exps[i].card_id = card_id})

\* delete_card(user_payload, card_id)
delete_card(out, card_id, cds, exps, db_fails) ==
    LET user_id == cards_extract_user_id(out)
    IN  IF user_id = 0 THEN Answer(401, "Authentication required.", cds)
        ELSE IF ~ card_of_user(cds, card_id, user_id)
        THEN Answer(404, "Card not found.", cds)
        ELSE IF expenses_count(exps, card_id) > 0
        THEN Answer(409, "Unable to delete card with associated expenses.",
                    cds)
        ELSE IF db_fails
        THEN Answer(500, "Failed to delete card due to a server error.", cds)
        ELSE Answer(200, "Card deleted successfully.",
                    [cds EXCEPT ![card_id] = NoCard])

\* The bodies of POST /api/expenses: the body of test_create_expense_success
\* with a type, and that body with one field changed.
NoExpensePayload ==
    [title |-> Absent, amount |-> Absent, category |-> Absent,
     type |-> Absent, card_id |-> Absent, date |-> Absent]

ExpensePayloads ==
    LET full(c) == [title |-> Str("Lunch"), amount |-> Num(12),
                    category |-> Str("need"), type |-> Str("need"),
                    card_id |-> Num(c), date |-> Absent]
        good == full(1)
    IN  {full(c) : c \in 1..MaxCards}
            \cup {[full(c) EXCEPT !.type = Absent] : c \in 1..MaxCards}
            \cup {[good EXCEPT !.title = Str("")],
                  [good EXCEPT !.amount = Str("invalid")],
                  [good EXCEPT !.amount = Str("12")],
                  [good EXCEPT !.category = Str("entertainment")],
                  [good EXCEPT !.category = Str(" Need")],
                  [good EXCEPT !.card_id = Absent],
                  [good EXCEPT !.date = Str("yesterday")],
                  [good EXCEPT !.date = Str("2024-01-01")]}

\* The bodies of PUT/PATCH /api/expenses/<id>.
ExpensePatches ==
    {NoExpensePayload,
     [NoExpensePayload EXCEPT !.amount = Num(5)],
     [NoExpensePayload EXCEPT !.category = Str("entertainment")],
     [NoExpensePayload EXCEPT !.type = Str("need")]}
        \cup {[NoExpensePayload EXCEPT !.card_id = Num(c)] :
                 c \in 1..MaxCards}

\* The bodies of POST /api/cards and of PUT/PATCH /api/cards/<id>.
NoCardPayload ==
    [name |-> Absent, type |-> Absent, limit |-> Absent,
     total_balance |-> Absent, balance_left |-> Absent]

CardPayloads ==
    LET named(t) == [NoCardPayload EXCEPT !.name = Str("Wallet"),
                                          !.type = Str(t)]
    IN  {named("debit"), named("credit"), named("prepaid"),
         [named("credit") EXCEPT !.limit = Str("12")],
         [named("prepaid") EXCEPT !.total_balance = Str("12")],
         [named("prepaid") EXCEPT !.total_balance = Str("5"),
                                  !.balance_left = Str("12")],
         [named("prepaid") EXCEPT !.total_balance = Str("12"),
                                  !.balance_left = Str("5")]}

CardPatches ==
    {[NoCardPayload EXCEPT !.balance_left = Str("12")],
     [NoCardPayload EXCEPT !.total_balance = Str("5")],
     [NoCardPayload EXCEPT !.total_balance = Null],
     [NoCardPayload EXCEPT !.type = Str("prepaid")],
     [NoCardPayload EXCEPT !.type = Str("debit")],
     [NoCardPayload EXCEPT !.type = Str("prepaid"),
                           !.total_balance = Str("12"),
                           !.balance_left = Str("5")]}

\* What the resource routes leave alone.
restVars == <<state_store, next_state, issued, initLog, req, redeems, mints,
              ver, script, first_session, now, minted, tokenLog>>

\* The request as `res` records it, before the response.
Asked(op, cred, out, target, payload) ==
    [NoRes EXCEPT !.seen = TRUE, !.op = op, !.api_key = cred.api_key,
                  !.authorization = cred.authorization,
                  !.handler = out.handler, !.via = out.via,
                  !.principal = out.principal, !.target = target,
                  !.before = IF op \in {"update_card", "delete_card"}
                             THEN IF target \in DOMAIN cards
                                  THEN cards[target] ELSE NoCard
                             ELSE IF target \in DOMAIN expenses
                             THEN expenses[target] ELSE NoExpense,
                  !.payload = payload]

\* The response: of the gate when it rejects, else of the handler.
Answered(asked, out, status, message, items) ==
    IF out.handler
    THEN [asked EXCEPT !.status = status, !.message = message,
                       !.items = items]
    ELSE [asked EXCEPT !.status = out.status, !.message = out.error]

\* Rows are added to users and cards as the setup of the tests adds them:
\* Card(user_id=user.id, name=...), whose type defaults to debit.
SeedCard ==
    /\ Len(cards) < MaxCards
    /\ \E u \in DOMAIN users :
         /\ users[u] # NoUser
         /\ cards' = Append(cards,
                [kind |-> "row", user_id |-> u, name |-> "Test Card",
                 type |-> "debit", credit_limit |-> Null,
                 total_balance |-> Null, balance_left |-> Null])
    /\ res' = NoRes
    /\ gate' = NoGate
    /\ UNCHANGED <<users, api_keys, expenses>>
    /\ UNCHANGED restVars

\* A mutation of delete_orphan_api_keys: the relationship has no cascade and
\* the keys of a deleted user stay in the table.
delete_orphan_api_keys_kept(keys, user_id) == keys

\* User.api_keys, cascade="all, delete-orphan": the api_keys table after the
\* user with this id is deleted.
delete_orphan_api_keys(keys, user_id) == {k \in keys : k.user_id # user_id}

\* db.session.delete(user); commit: the relationships of User and of Card
\* cascade the delete to the user's API keys, cards and expenses.
DeleteUser ==
    /\ Cardinality({u \in DOMAIN users : users[u] = NoUser}) < MaxDeleted
    /\ \E u \in DOMAIN users :
         /\ users[u] # NoUser
         /\ users' = [users EXCEPT ![u] = NoUser]
         /\ api_keys' = delete_orphan_api_keys(api_keys, u)
         /\ cards' = [c \in DOMAIN cards |->
                        IF cards[c] # NoCard /\ cards[c].user_id = u
                        THEN NoCard ELSE cards[c]]
         /\ expenses' = [e \in DOMAIN expenses |->
                           IF /\ expenses[e] # NoExpense
                              /\ \/ expenses[e].user_id = u
                                 \/ /\ cards[expenses[e].card_id] # NoCard
                                    /\ cards[expenses[e].card_id].user_id = u
                           THEN NoExpense ELSE expenses[e]]
    /\ res' = NoRes
    /\ gate' = NoGate
    /\ UNCHANGED restVars

CreateExpense ==
    /\ Len(expenses) < MaxExpenses
    /\ \E cred \in Credentials, payload \in ExpensePayloads :
         LET out == token_required(cred.api_key, cred.authorization,
                                   api_keys, now)
             asked == Asked("create_expense", cred, out, 0, payload)
         IN  IF out.handler
             THEN \E r \in {create_expense(out, payload, expenses, cards,
                                            db_fails) : db_fails \in BOOLEAN} :
                    /\ expenses' = r.rows
                    /\ res' = [Answered(asked, out, r.status, r.message, {})
                                 EXCEPT !.target = IF r.status = 201
                                                   THEN Len(r.rows) ELSE 0]
             ELSE /\ res' = Answered(asked, out, 0, "", {})
                  /\ UNCHANGED expenses
    /\ gate' = NoGate
    /\ UNCHANGED <<users, api_keys, cards>>
    /\ UNCHANGED restVars

ListExpenses ==
    /\ \E cred \in Credentials,
          raw_category \in {Absent, Str("need"), Str("entertainment")} :
         LET out == token_required(cred.api_key, cred.authorization,
                                   api_keys, now)
             asked == Asked("list_expenses", cred, out, 0, raw_category)
             r == list_expenses(out, raw_category, expenses)
         IN  res' = IF out.handler
                    THEN Answered(asked, out, r.status, r.message, r.items)
                    ELSE Answered(asked, out, 0, "", {})
    /\ gate' = NoGate
    /\ UNCHANGED <<users, api_keys, cards, expenses>>
    /\ UNCHANGED restVars

GetExpense ==
    /\ \E cred \in Credentials, expense_id \in 1..MaxExpenses :
         LET out == token_required(cred.api_key, cred.authorization,
                                   api_keys, now)
             asked == Asked("get_expense", cred, out, expense_id, Absent)
             r == get_expense(out, expense_id, expenses)
         IN  res' = IF out.handler
                    THEN Answered(asked, out, r.status, r.message, r.items)
                    ELSE Answered(asked, out, 0, "", {})
    /\ gate' = NoGate
    /\ UNCHANGED <<users, api_keys, cards, expenses>>
    /\ UNCHANGED restVars

UpdateExpense ==
    /\ \E cred \in Credentials, expense_id \in 1..MaxExpenses,
          payload \in ExpensePatches :
         LET out == token_required(cred.api_key, cred.authorization,
                                   api_keys, now)
             asked == Asked("update_expense", cred, out, expense_id, payload)
         IN  IF out.handler
             THEN \E r \in {update_expense(out, expense_id, payload, expenses,
                                            cards, db_fails) :
                               db_fails \in BOOLEAN} :
                    /\ expenses' = r.rows
                    /\ res' = Answered(asked, out, r.status, r.message, {})
             ELSE /\ res' = Answered(asked, out, 0, "", {})
                  /\ UNCHANGED expenses
    /\ gate' = NoGate
    /\ UNCHANGED <<users, api_keys, cards>>
    /\ UNCHANGED restVars

DeleteExpense ==
    /\ \E cred \in Credentials, expense_id \in 1..MaxExpenses :
         LET out == token_required(cred.api_key, cred.authorization,
                                   api_keys, now)
             asked == Asked("delete_expense", cred, out, expense_id, Absent)
         IN  IF out.handler
             THEN \E r \in {delete_expense(out, expense_id, expenses,
                                            db_fails) : db_fails \in BOOLEAN} :
                    /\ expenses' = r.rows
                    /\ res' = Answered(asked, out, r.status, r.message, {})
             ELSE /\ res' = Answered(asked, out, 0, "", {})
                  /\ UNCHANGED expenses
    /\ gate' = NoGate
    /\ UNCHANGED <<users, api_keys, cards>>
    /\ UNCHANGED restVars

\* The requests to /api/cards: POST with a body, PUT/PATCH of a card with a
\* body, DELETE of a card.
CardRequests ==
    {[op |-> "create_card", target |-> 0, payload |-> p] :
        p \in CardPayloads}
        \cup {[op |-> "update_card", target |-> c, payload |-> p] :
                 c \in 1..MaxCards, p \in CardPatches}
        \cup {[op |-> "delete_card", target |-> c, payload |-> Absent] :
                 c \in 1..MaxCards}

\* The view function of a request to /api/cards.
cards_view(rq, out, cds, exps, db_fails) ==
    CASE rq.op = "create_card" ->
           create_card(out, rq.payload, cds, db_fails)
      [] rq.op = "update_card" ->
           update_card(out, rq.target, rq.payload, cds, db_fails)
      [] rq.op = "delete_card" ->
           delete_card(out, rq.target, cds, exps, db_fails)

\* A request to /api/cards.  The router calls the view function of a URL
\* only when create_app registered its blueprint, and answers 404 itself
\* otherwise, before any credential is read.
CardsRequest ==
    /\ \E rq \in CardRequests, cred \in Credentials :
         LET out == token_required(cred.api_key, cred.authorization,
                                   api_keys, now)
             asked == Asked(rq.op, cred, out, rq.target, rq.payload)
         IN  IF "cards" \notin registered_blueprints
             THEN /\ res' = [asked EXCEPT !.handler = FALSE, !.via = "",
                                          !.principal = 0, !.status = 404,
                                          !.message = "Not Found"]
                  /\ UNCHANGED cards
             ELSE IF out.handler
             THEN \E r \in {cards_view(rq, out, cards, expenses, db_fails) :
                               db_fails \in BOOLEAN} :
                    /\ Len(r.rows) <= MaxCards
                    /\ cards' = r.rows
                    /\ res' = Answered(asked, out, r.status, r.message, {})
             ELSE /\ res' = Answered(asked, out, 0, "", {})
                  /\ UNCHANGED cards
    /\ gate' = NoGate
    /\ UNCHANGED <<users, api_keys, expenses>>
    /\ UNCHANGED restVars

NextStore ==
    \/ AddApiKey
    \/ SeedCard
    \/ CreateExpense
    \/ ListExpenses
    \/ GetExpense
    \/ UpdateExpense
    \/ DeleteExpense
    \/ CardsRequest

\* The resource routes over the tables.
SpecStore == Init /\ [][NextStore]_vars

\* Users are provisioned and deleted while requests arrive.
NextAccounts ==
    \/ AddApiKey
    \/ SeedCard
    \/ DeleteUser
    \/ CreateExpense
    \/ GetExpense

SpecAccounts == Init /\ [][NextAccounts]_vars

(***************************************************************************)
(* C1-C4: the OAuth state store.                                           *)
(***************************************************************************)
\* C1: single use.  A google_callback that arrives after some request has
\* redeemed its state token (got past the delete of line 94) is answered 400
\* at once, whatever redirect_uri it presents, and is given no session token.
C1_SingleUse ==
    \A t \in Threads :
        req[t].late =>
            /\ req[t].pc = "done"
            /\ req[t].status = 400
            /\ req[t].token = NoToken
            /\ req[t].calls = {}

\* A request was answered after its state token had been redeemed with the
\* redirect_uri the token was issued for.
C1_Witness ==
    \E t \in Threads :
        /\ req[t].late
        /\ req[t].pc = "done"
        /\ req[t].uri = issued[req[t].state]

\* The request of thread t found the state token s in the store (line 86)
\* and presented the redirect_uri the token was issued for.
Contends(t, s) ==
    /\ req[t].state = s
    /\ req[t].found
    /\ req[t].uri = issued[s]

\* C2: concurrent redemption.  No state token is redeemed twice and none
\* yields two session tokens.  Every request that contends for a state token
\* and is answered either got past the redemption itself or is rejected (400
\* or 500) without a session token, and in both cases exactly one request
\* has got past the redemption of that token: of two requests racing for a
\* fresh token, exactly one passes.
C2_ConcurrentRedeem ==
    /\ \A s \in 1..MaxStates : redeems[s] <= 1 /\ mints[s] <= 1
    /\ \A t \in Threads, s \in DOMAIN issued :
          (Contends(t, s) /\ req[t].pc = "done") =>
              /\ redeems[s] = 1
              /\ ~ req[t].passed =>
                    /\ req[t].status \in {400, 500}
                    /\ req[t].token = NoToken
                    /\ req[t].calls = {}

\* Of two requests contending for one state token, one has got past the
\* redemption and the other is answered 500: it had passed the membership
\* test and the comparison before the winner's delete, and its own delete
\* raised.
C2_Witness ==
    \E t1, t2 \in Threads, s \in DOMAIN issued :
        /\ t1 # t2
        /\ Contends(t1, s) /\ req[t1].passed
        /\ Contends(t2, s) /\ req[t2].pc = "done" /\ ~ req[t2].passed
        /\ req[t2].status = 500

\* C3: CSRF binding.  A request that presents an issued state token with
\* another redirect_uri than the one the token was issued for gets no
\* further than the comparison of line 90: it is answered 400 and makes no
\* token exchange, no upsert and no session token.
C3_CsrfBinding ==
    \A t \in Threads :
        (/\ req[t].pc # "idle"
         /\ req[t].state \in DOMAIN issued
         /\ req[t].uri # issued[req[t].state]) =>
            /\ req[t].pc \in {"get", "done"}
            /\ req[t].pc = "done" => req[t].status = 400
            /\ ~ req[t].passed
            /\ req[t].calls = {}
            /\ req[t].token = NoToken

\* A request was turned down by the comparison of line 90 for a state token
\* that was in the store under another redirect_uri.
C3_Witness ==
    \E t \in Threads :
        /\ req[t].pc = "done"
        /\ req[t].state \in DOMAIN issued
        /\ req[t].uri \notin {None, issued[req[t].state]}
        /\ req[t].stored = issued[req[t].state]
        /\ req[t].error = "redirect_uri does not match state"

\* The configured allow-list: the comma-separated pieces of the setting.
AllowList ==
    LET l == Split(ALLOWED_MOBILE_REDIRECT_URIS, ",")
    IN  {l[i] : i \in 1..Len(l)}

\* C4: a google_init whose redirect_uri is missing or is no exact member of
\* the allow-list is answered 400 and leaves state_store as it was.
C4_InitRejects ==
    [][(/\ initLog' # initLog
        /\ initLog'.seen
        /\ (initLog'.uri = None \/ initLog'.uri \notin AllowList)) =>
           (/\ initLog'.status = 400
            /\ initLog'.state = NoState
            /\ state_store' = state_store)]_vars

\* google_init turned down a redirect_uri that is a prefix-extension of an
\* allow-listed one, with an entry already in the store.
C4_Witness ==
    /\ initLog.seen
    /\ initLog.status = 400
    /\ initLog.uri = <<"a", ",">>
    /\ DOMAIN state_store # {}

(***************************************************************************)
(* C5-C8: the gate.                                                        *)
(***************************************************************************)
\* The api_key row that matches the X-Api-Key header of the request just
\* answered.
GateRow == api_key_by_key(api_keys, gate.api_key)

\* C5: a request whose X-Api-Key matches a row with is_active = False is
\* answered 401 and the handler is not called.
C5_InactiveKeyRejected ==
    (/\ gate.seen
     /\ gate.api_key # NoApiKeyHeader
     /\ GateRow # NoRow
     /\ ~ GateRow.is_active) =>
        /\ gate.out.status = 401
        /\ ~ gate.out.handler

\* C6: a request with neither an X-Api-Key nor an Authorization header is
\* answered 401 'Token is missing' and the handler is not called.
C6_MissingCredential ==
    (/\ gate.seen
     /\ gate.api_key = NoApiKeyHeader
     /\ gate.authorization = NoAuthorization) =>
        /\ gate.out.status = 401
        /\ gate.out.error = "Token is missing"
        /\ ~ gate.out.handler

\* A request without credentials was answered while a key and a token that
\* would have been accepted existed.
C6_Witness ==
    /\ gate.seen
    /\ gate.api_key = NoApiKeyHeader
    /\ gate.authorization = NoAuthorization
    /\ api_keys # {}
    /\ \E m \in minted : decode_jwt(m.token, now) # NoPayload

\* C7: no fall-through.  A request whose X-Api-Key matches no row is answered
\* 401 without the handler being called and without decode_jwt being applied
\* to its Authorization header.
C7_NoFallThrough ==
    (/\ gate.seen
     /\ gate.api_key # NoApiKeyHeader
     /\ GateRow = NoRow) =>
        /\ gate.out.status = 401
        /\ ~ gate.out.handler
        /\ ~ gate.out.decoded

\* A request with an unknown API key and a bearer token that decode_jwt
\* accepts at that moment was answered.
C7_Witness ==
    /\ gate.seen
    /\ gate.api_key # NoApiKeyHeader
    /\ GateRow = NoRow
    /\ \E m \in minted :
          /\ gate.authorization = <<Bearer, m.token>>
          /\ decode_jwt(m.token, now) # NoPayload

\* C8: with an X-Api-Key header the outcome does not depend on the
\* Authorization header: any other Authorization header, in the state the
\* request was answered in, gives the same status, the same decision about
\* the handler and the same principal; when the handler is called, the
\* principal is the user_id of the key's row.
C8_KeyDecides ==
    (gate.seen /\ gate.api_key # NoApiKeyHeader) =>
        /\ \A a \in AuthorizationHeaders :
              LET o == token_required(gate.api_key, a, api_keys, now)
              IN  /\ o.status = gate.out.status
                  /\ o.handler = gate.out.handler
                  /\ o.principal = gate.out.principal
        /\ gate.out.handler =>
              /\ GateRow # NoRow
              /\ gate.out.principal = GateRow.user_id

\* A request with a stored API key and a tampered bearer token of another
\* user was passed to the handler.
C8_Witness ==
    /\ gate.seen
    /\ gate.out.handler
    /\ gate.out.via = "api_key"
    /\ \E m \in minted :
          /\ gate.authorization = <<Bearer, Tampered(m.token)>>
          /\ Tampered(m.token).claims.user_id # gate.out.principal

(***************************************************************************)
(* C9-C10: the session token codec.                                        *)
(***************************************************************************)
\* The instant, in ticks, from which a token counts as expired.
ExpiryTick(token) == token.claims.exp * TicksPerSecond

\* C9: round trip.  At every instant from its minting to before its expiry,
\* decode_jwt returns for a token of generate_jwt(user_id, email) claims with
\* that user_id and that email.
C9_RoundTrip ==
    \A m \in minted :
        now < ExpiryTick(m.token) =>
            /\ decode_jwt(m.token, now) # NoPayload
            /\ decode_jwt(m.token, now).user_id = m.user_id
            /\ decode_jwt(m.token, now).email = m.email

\* A token is decoded strictly between its minting and its expiry, and was
\* minted off a whole second, so that iat was rounded down.
C9_Witness ==
    \E m \in minted :
        /\ m.at < now
        /\ now < ExpiryTick(m.token)
        /\ m.at % TicksPerSecond # 0
        /\ decode_jwt(m.token, now).user_id = m.user_id

\* C10: expiry.  From the instant of its exp on, decode_jwt returns None for
\* an authentic token, and a request that carries it as its only credential
\* is answered 401 without the handler being called.
C10_Expiry ==
    \A m \in minted :
        now >= ExpiryTick(m.token) =>
            /\ decode_jwt(m.token, now) = NoPayload
            /\ (/\ gate.seen
                /\ gate.api_key = NoApiKeyHeader
                /\ gate.authorization \in {<<Bearer, m.token>>, <<m.token>>}) =>
                   /\ gate.out.status = 401
                   /\ ~ gate.out.handler

\* A request carrying an authentic token was answered at the very instant
\* of the token's expiry.
C10_Witness ==
    \E m \in minted :
        /\ now = ExpiryTick(m.token)
        /\ gate.seen
        /\ gate.api_key = NoApiKeyHeader
        /\ gate.authorization = <<Bearer, m.token>>
        /\ gate.out.status = 401


(***************************************************************************)
(* C11-C13: rejection and refresh of session tokens.                       *)
(***************************************************************************)
\* The token the gate read from the request it has just answered.
GateToken ==
    IF gate.authorization = NoAuthorization THEN NoToken
    ELSE replace_bearer(gate.authorization)

\* The token the token endpoint read from the request it has just answered.
LogToken == request_token(tokenLog.body, tokenLog.authorization)

\* tok is no token at all, or a handed-out token with its claims rewritten
\* or signed with a foreign key.
BadlyFormedOrSigned(tok) ==
    \/ tok = Malformed
    \/ \E m \in minted : tok \in {Tampered(m.token), Forged(m.token)}

\* tok is an authentic token and t is at or after its expiry.
ExpiredAt(tok, t) ==
    \E m \in minted : tok = m.token /\ t >= ExpiryTick(m.token)

\* C11: uniform rejection.  For a bearer token that is malformed, wrongly
\* signed or expired, the gate's outcome is one and the same rejection (401,
\* 'Token is invalid or expired', no handler call), and so is the answer of
\* token_verify2 (401, the same message, no claims): nothing in either tells
\* the three causes apart.
C11_UniformRejection ==
    /\ (/\ gate.seen
        /\ gate.api_key = NoApiKeyHeader
        /\ BadlyFormedOrSigned(GateToken) \/ ExpiredAt(GateToken, now)) =>
           gate.out = Reject("Token is invalid or expired", TRUE)
    /\ (/\ tokenLog.seen
        /\ tokenLog.endpoint = "verify2"
        /\ BadlyFormedOrSigned(LogToken) \/ ExpiredAt(LogToken, now)) =>
           /\ tokenLog.status = 401
           /\ tokenLog.error = "Token is invalid or expired"
           /\ tokenLog.user_id = 0
           /\ tokenLog.email = ""
           /\ tokenLog.token = NoToken

\* token_verify2 answered a request whose token is authentic and expired.
C11_Witness ==
    /\ tokenLog.seen
    /\ tokenLog.endpoint = "verify2"
    /\ ExpiredAt(LogToken, now)
    /\ tokenLog.status = 401

\* C12: refresh of an expired token.  When token_refresh2 is given an
\* authentic token whose exp has passed, it answers 200 with a new token
\* that carries the user_id and the email the old one was minted for, whose
\* exp is after the current time, and which decode_jwt accepts.
C12_RefreshExpired ==
    \A m \in minted :
        (/\ tokenLog.seen
         /\ tokenLog.endpoint = "refresh2"
         /\ LogToken = m.token
         /\ tokenLog.at >= ExpiryTick(m.token)) =>
            /\ tokenLog.status = 200
            /\ tokenLog.token # NoToken
            /\ tokenLog.token.claims.user_id = m.user_id
            /\ tokenLog.token.claims.email = m.email
            /\ ExpiryTick(tokenLog.token) > now
            /\ decode_jwt(tokenLog.token, now) # NoPayload
            /\ decode_jwt(tokenLog.token, now).user_id = m.user_id
            /\ decode_jwt(tokenLog.token, now).email = m.email

\* An expired token, which decode_jwt turns down, was refreshed, and the
\* clock advanced between the two readings of generate_jwt.
C12_Witness ==
    \E m \in minted :
        /\ tokenLog.seen
        /\ tokenLog.endpoint = "refresh2"
        /\ LogToken = m.token
        /\ tokenLog.at >= ExpiryTick(m.token)
        /\ decode_jwt(m.token, tokenLog.at) = NoPayload
        /\ tokenLog.at < now
        /\ tokenLog.status = 200

\* C13: refresh of a token that is not authentic.  When token_refresh2 is
\* given a malformed token, or a token whose claims were rewritten or that
\* was signed with another key, refresh_jwt returns None: the answer is 401
\* and holds no token, whatever the claims of the token are.
C13_RefreshRejects ==
    (/\ tokenLog.seen
     /\ tokenLog.endpoint = "refresh2"
     /\ BadlyFormedOrSigned(LogToken)) =>
        /\ tokenLog.status = 401
        /\ tokenLog.token = NoToken

\* A refresh was refused for a token whose user_id had been rewritten, while
\* the token it was made from was still valid.
C13_Witness ==
    \E m \in minted :
        /\ tokenLog.seen
        /\ tokenLog.endpoint = "refresh2"
        /\ LogToken = Tampered(m.token)
        /\ decode_jwt(m.token, now) # NoPayload
        /\ tokenLog.status = 401


(***************************************************************************)
(* C14-C17: the principal upsert.                                          *)
(***************************************************************************)
\* The federation requests of a state, the code-flow ones and the ID-token
\* one, in one shape: who it is, where it is, what it brought and how it
\* was answered; `failed` tells that its upsert failed.
Outcome(who, r, failed) ==
    [who |-> who, pc |-> r.pc, status |-> r.status, email |-> r.email, user |-> r.user,
     name |-> r.name, token |-> r.token, created |-> r.created,
     conflict |-> r.conflict, failed |-> failed, error |-> r.error,
     details |-> r.details]

UpsertFailed(r) ==
    /\ Len(r.stages) > 0
    /\ r.stages[Len(r.stages)] = Stage("upsert", "failed")

Outcomes ==
    {Outcome(t, req[t], UpsertFailed(req[t])) : t \in Threads}
        \cup {Outcome("verify", ver, ver.db = "failed")}

\* The rows of the users table with this e-mail address.
RowsOf(rows, email) == {i \in 1..Len(rows) : rows[i].email = email}

\* The federations that are answered 200 by this step.
SucceedsNow(o) == o.pc = "done" /\ o.status = 200 /\ o \notin Outcomes

\* C14: upsert by email.  When a federation (code flow or ID-token flow)
\* succeeds, exactly one users row has its email, and its token carries the
\* user_id of the first successful federation with that email; when one had
\* succeeded before, the step adds no row and changes nothing but the name
\* of that row, whose id and email stay.
C14_UpsertByEmail ==
    [][\A o \in Outcomes' :
          SucceedsNow(o) =>
             /\ Cardinality(RowsOf(users', o.email)) = 1
             /\ o.token.claims.user_id = first_session'[o.email].user_id
             /\ o.token.claims.email = o.email
             /\ first_session[o.email] # NoSession =>
                  LET id == first_session[o.email].user_id
                  IN  /\ o.token.claims.user_id = id
                      /\ users' = [users EXCEPT ![id].name = o.name]
                      /\ users'[id].email = o.email]_vars

\* An ID-token federation succeeded for an email whose first federation was
\* a code-flow one, and found the row under another name.
C14_Witness ==
    /\ ver.pc = "done"
    /\ ver.status = 200
    /\ ~ ver.created
    /\ first_session[ver.email].flow = "code"
    /\ ver.token.claims.user_id = first_session[ver.email].user_id
    /\ Len(users) = 2

\* C15: a federation whose insert hits the unique constraint on email (the
\* row was created by another request after its query) re-fetches the row
\* and ends in success with a token for that row's principal, not in 500.
C15_RaceRefetch ==
    \A o \in Outcomes :
        (o.pc = "done" /\ o.conflict) =>
            /\ o.status = 200
            /\ o.token # NoToken
            /\ o.token.claims.user_id \in RowsOf(users, o.email)

\* C16: email uniqueness.  No two rows of the users table have the same
\* email.
C16_EmailUnique ==
    \A i, j \in 1..Len(users) :
        users[i].email = users[j].email => i = j

\* An insert of google_verify was turned down by the unique constraint: the
\* row had been created, after the query, by the provisioning script.
C16_Witness ==
    /\ ver.pc = "done"
    /\ ver.conflict
    /\ \E i \in RowsOf(users, ver.email) :
          users[i].name = local_part(ver.email)

\* A federation's upsert fails in this step.
FailsNow(o) == o.pc = "done" /\ o.failed /\ o \notin Outcomes

\* C17: transactional upsert.  A step in which the upsert of a federation
\* fails (at the query or at the commit) leaves the users table as it was,
\* and the request is answered 500 'Database error occurred' without a
\* session token.
C17_TransactionalUpsert ==
    [][\A o \in Outcomes' :
          FailsNow(o) =>
             /\ users' = users
             /\ o.status = 500
             /\ o.error = "Database error occurred"
             /\ o.token = NoToken]_vars

\* The commit of an update failed: the row is there under the name it had,
\* not under the name the request brought.
C17_Witness ==
    /\ ver.pc = "done"
    /\ ver.db = "failed"
    /\ ver.user # 0
    /\ ~ ver.conflict
    /\ users[ver.user].email = ver.email
    /\ users[ver.user].name # ver.name


(***************************************************************************)
(* C18-C20: the stages of the code flow.                                   *)
(***************************************************************************)
\* The last stage the request of thread t entered, and what it returned.
LastStage(t) == req[t].stages[Len(req[t].stages)]

\* The identity provider answered the last call of the request with a
\* status other than 200.
UpstreamRejected(t) ==
    /\ Len(req[t].stages) > 0
    /\ LastStage(t).stage \in {"exchange", "userinfo"}
    /\ LastStage(t).result \in {"rejected", "rejected_not_json"}

\* C18: upstream rejection.  When the identity provider answers the token
\* exchange or the profile fetch with a status other than 200, the request
\* is answered 400 with the provider's error payload attached; no users row
\* is created or updated and no session token is minted.
C18_UpstreamRejected ==
    \A t \in Threads :
        UpstreamRejected(t) =>
            /\ req[t].pc = "done"
            /\ req[t].status = 400
            /\ req[t].details = "upstream"
            /\ "upsert" \notin req[t].calls
            /\ req[t].token = NoToken

\* C19: a federation request that ends in a network-level failure or in an
\* unexpected fault is answered 500 with a generic message, and the body
\* holds no detail of the exception.
C19_NoInternalDetail ==
    \A o \in Outcomes :
        (/\ o.pc = "done"
         /\ o.status = 500
         /\ o.error \in {"Network error occurred", "Internal server error"}) =>
            o.details = ""

\* The stages of a run that ends in a session token, in their order.
FullRun ==
    <<Stage("redeem", "ok"), Stage("exchange", "ok"),
      Stage("userinfo", "ok"), Stage("upsert", "committed")>>

\* C20: federation ordering.  A google_callback request holds a session
\* token only when it is answered 200 after, in this order, the redemption
\* of its state token with the redirect_uri the token was issued for, a
\* token exchange and a profile fetch that returned what the handler needs,
\* and a committed upsert.  A stage that fails is the last stage of its
\* request, which is answered 400 or 500 without a session token.
C20_FederationOrdering ==
    \A t \in Threads :
        /\ req[t].token # NoToken =>
              /\ req[t].pc = "done"
              /\ req[t].status = 200
              /\ req[t].stages = FullRun
              /\ req[t].uri = issued[req[t].state]
        /\ (req[t].pc = "done" /\ req[t].status # 200) =>
              req[t].token = NoToken
        /\ \A i \in 1..Len(req[t].stages) :
              req[t].stages[i].result \notin {"ok", "committed"} =>
                 /\ i = Len(req[t].stages)
                 /\ req[t].pc = "done"
                 /\ req[t].status \in {400, 500}
                 /\ req[t].token = NoToken

\* A request went through all four stages and was answered with a session
\* token for the row it committed.
C20_Witness ==
    \E t \in Threads :
        /\ req[t].pc = "done"
        /\ req[t].status = 200
        /\ req[t].stages = FullRun
        /\ req[t].token # NoToken
        /\ req[t].token.claims.user_id = req[t].user

(***************************************************************************)
(* C21-C30: the direct ID-token path, the resource routes, the state       *)
(* store and the lifetime of credentials.                                  *)
(***************************************************************************)
\* C21: direct ID-token path.  A google_verify request whose id_token does
\* not verify is answered 401, runs no upsert on the users table and is
\* given no session token; a fault of another kind during the verification
\* is answered 500.
C21_InvalidIdToken ==
    /\ (ver.pc = "done" /\ ver.id_token = "invalid") =>
          /\ ver.status = 401
          /\ ver.db = ""
          /\ ~ ver.created
          /\ ver.token = NoToken
    /\ (ver.pc = "done" /\ ver.id_token = "fault") => ver.status = 500

\* A request with an ID token that does not verify has been answered while
\* the users table holds a row.
C21_Witness ==
    /\ ver.pc = "done"
    /\ ver.id_token = "invalid"
    /\ ver.status = 401
    /\ Len(users) > 0

\* The user the credentials of the answered request stand for (the owner of
\* the API key, else the user_id of a bearer token the gate accepts), 0 when
\* they stand for none.
Caller ==
    LET key == api_key_by_key(api_keys, res.api_key)
        out == bearer_branch(res.authorization, now)
    IN  IF res.api_key # NoApiKeyHeader
        THEN IF key = NoRow THEN 0 ELSE key.user_id
        ELSE IF out.handler THEN out.principal ELSE 0

\* The answered request was a POST /api/expenses that left a new row for
\* user_id with the category and the card of its body.
Persisted(user_id) ==
    /\ res.status = 201
    /\ res.target \in DOMAIN expenses
    /\ expenses[res.target] # NoExpense
    /\ expenses[res.target].user_id = user_id
    /\ Str(expenses[res.target].category) = res.payload.category
    /\ Num(expenses[res.target].card_id) = res.payload.card_id

\* The commit of the answered POST /api/expenses failed in the database.
CommitFailed ==
    res.message = "Failed to create expense due to a server error."

\* C22: the API-key principal reaches the handler.  A POST /api/expenses
\* that carries only a valid X-Api-Key, with a body that passes the
\* validation and a card_id of a card of the key's owner, creates the
\* expense for the key's owner and is answered 201, as the same request
\* with the owner's bearer token is.
C22_ApiKeyPrincipal ==
    (/\ res.op = "create_expense"
     /\ res.api_key \in KeyValues
     /\ Caller # 0
     /\ validate_expense(res.payload, TRUE) = << >>
     /\ _normalize_expense_type(res.payload.category) # ""
     /\ res.payload.date = Absent
     /\ _load_card_for_user(res.payload.card_id, Caller, cards) # 0)
        => (Persisted(Caller) \/ CommitFailed)

\* C23: create expense.  An authenticated POST /api/expenses whose body has
\* a non-empty title, a numeric amount, a category among investment, wants
\* and need, and the card_id of a card of the caller, whatever else it holds
\* or lacks, is answered 201 and leaves one new expense of the caller with
\* that category and card.
C23_CreateExpense ==
    (/\ res.op = "create_expense"
     /\ res.via = "bearer"
     /\ ~ falsy(res.payload.title)
     /\ float(res.payload.amount).ok
     /\ res.payload.category \in {Str(t) : t \in ALLOWED_EXPENSE_TYPES}
     /\ res.payload.date = Absent
     /\ _load_card_for_user(res.payload.card_id, res.principal, cards) # 0)
        => (Persisted(res.principal) \/ CommitFailed)

\* C24: the card deletion guard.  A DELETE of a card by its owner is
\* answered 409 and leaves the card as it was while an expense references
\* the card, and is answered 200 and removes the card when none does; no
\* expense references a card that is gone.
C24_DeleteGuard ==
    /\ (/\ res.op = "delete_card"
        /\ Caller # 0
        /\ res.before # NoCard
        /\ res.before.user_id = Caller) =>
           IF expenses_count(expenses, res.target) > 0
           THEN res.status = 409 /\ cards[res.target] = res.before
           ELSE \/ res.status = 200 /\ cards[res.target] = NoCard
                \/ res.status = 500 /\ cards[res.target] = res.before
    /\ \A e \in DOMAIN expenses :
          expenses[e] # NoExpense => cards[expenses[e].card_id] # NoCard

\* A card is prepaid without both balances, or with more left than its
\* total.
BreaksBalance(card) ==
    /\ card.type = "prepaid"
    /\ \/ card.total_balance = Null
       \/ card.balance_left = Null
       \/ card.balance_left.v > card.total_balance.v

\* The card a body asks for: the fields of the body over those of the row
\* (for a POST, over a row without values).
AskedCard(row, payload) ==
    LET over(old, new) == IF new = Absent THEN old
                          ELSE _parse_decimal(new).value
    IN  [type |-> IF payload.type = Absent THEN row.type
                  ELSE payload.type.s,
         total_balance |-> over(row.total_balance, payload.total_balance),
         balance_left |-> over(row.balance_left, payload.balance_left)]

\* C25: the prepaid balance invariant.  Every card of type prepaid in the
\* cards table has total_balance and balance_left set, with balance_left
\* at most total_balance; a create_card or update_card request of an
\* authenticated user (for an update, the owner of the card) that asks for
\* a card that breaks this is answered 400, and the stored card is as it
\* was.
C25_PrepaidBalance ==
    /\ \A c \in DOMAIN cards :
          cards[c] # NoCard => ~ BreaksBalance(cards[c])
    /\ (/\ res.op = "create_card"
        /\ Caller # 0
        /\ BreaksBalance(AskedCard([type |-> "", total_balance |-> Null,
                                    balance_left |-> Null], res.payload)))
          => res.status = 400
    /\ (/\ res.op = "update_card"
        /\ Caller # 0
        /\ res.before # NoCard
        /\ res.before.user_id = Caller
        /\ BreaksBalance(AskedCard(res.before, res.payload)))
          => res.status = 400 /\ cards[res.target] = res.before

\* C26: the state entry is consumed on the first attempt.  Once a
\* google_callback that presented a known state token has been answered,
\* whether or not its redirect_uri matched the stored one, the token is no
\* longer in state_store, so no later request can redeem it.
C26_ConsumedOnFirstAttempt ==
    \A t \in Threads :
        (req[t].pc = "done" /\ req[t].found) =>
            req[t].state \notin DOMAIN state_store

\* C27: no retry within the flow.  The state entry is deleted before the
\* token exchange starts: a request that is at or past the exchange has
\* redeemed its state token and the token is gone from state_store.  A
\* redeemed token never comes back, so a repeated google_callback with it,
\* whatever became of the flow that redeemed it, is answered 400 (by the
\* checks of the body and its fields, or else with 'Invalid or expired
\* state token') without finding or redeeming the token; only a state that
\* google_init issues afterwards can be redeemed.
C27_NoRetry ==
    /\ \A t \in Threads :
          (\/ req[t].pc \in {"exchange", "userinfo", "query", "commit"}
           \/ req[t].calls # {}) =>
              /\ req[t].passed
              /\ req[t].state \notin DOMAIN state_store
    /\ \A s \in DOMAIN redeems :
          redeems[s] > 0 => s \notin DOMAIN state_store
    /\ \A t \in Threads :
          (req[t].late /\ req[t].pc = "done") =>
              /\ req[t].status = 400
              /\ req[t].error \in {"Request body is required",
                                   "Authorization code is required",
                                   "redirect_uri is required",
                                   "Invalid or expired state token"}
              /\ ~ req[t].found
              /\ ~ req[t].passed

\* A flow redeemed a state token and ended without a session token (the
\* exchange, the profile fetch or the upsert failed), and a repeated
\* google_callback with that token and its redirect_uri was turned down.
C27_Witness ==
    \E t \in Threads :
        /\ req[t].late
        /\ req[t].pc = "done"
        /\ req[t].uri = issued[req[t].state]
        /\ req[t].error = "Invalid or expired state token"
        /\ redeems[req[t].state] = 1
        /\ mints[req[t].state] = 0
        /\ \A u \in Threads \ {t} : req[u].pc = "idle"

\* C28: unbounded refresh.  At no instant after its minting does refresh_jwt
\* turn down an authentic token: at every later reading of the clock a
\* handed-out token is refreshed, however long ago it expired, and so is
\* the token that comes out of the refresh; token_refresh2 answers every
\* request that brings a handed-out token with 200 and a token that can be
\* refreshed again at every later instant.
C28_UnboundedRefresh ==
    /\ \A m \in minted : \A t1 \in now..MaxTime :
          LET once == refresh_jwt(m.token, t1, t1)
          IN  /\ once # NoToken
              /\ \A t2 \in t1..MaxTime : refresh_jwt(once, t2, t2) # NoToken
    /\ \A m \in minted :
          (/\ tokenLog.seen
           /\ tokenLog.endpoint = "refresh2"
           /\ LogToken = m.token) =>
              /\ tokenLog.status = 200
              /\ tokenLog.token # NoToken
              /\ \A t \in now..MaxTime :
                    refresh_jwt(tokenLog.token, t, t) # NoToken

\* A token was refreshed after its expiry had passed, and the token that
\* came out can be refreshed at an instant at which it has expired in turn.
C28_Witness ==
    \E m \in minted :
        /\ tokenLog.seen
        /\ tokenLog.endpoint = "refresh2"
        /\ LogToken = m.token
        /\ tokenLog.at > ExpiryTick(m.token)
        /\ tokenLog.status = 200
        /\ \E t \in now..MaxTime :
              /\ t >= ExpiryTick(tokenLog.token)
              /\ decode_jwt(tokenLog.token, t) = NoPayload
              /\ refresh_jwt(tokenLog.token, t, t) # NoToken

\* C29: stateless bearer validity.  The gate decides on a bearer token
\* without looking at the users table: a request that brings the session
\* token of a user reaches the handler with that user_id whether or not the
\* User row is (still) there.  An API key is accepted only as a row of
\* api_keys, and the rows of a deleted user are deleted with it: every key
\* row belongs to a user that is there, a request with a key that has no
\* row is answered 401 'Invalid API key', and a request with a key reaches
\* the handler only for a user that is there.
C29_StatelessBearer ==
    /\ \A u \in UserIds :
          (/\ res.seen
           /\ res.api_key = NoApiKeyHeader
           /\ res.authorization
                 = <<Bearer, generate_jwt(u, SessionEmail(u), 0, 0)>>) =>
              /\ res.handler
              /\ res.via = "bearer"
              /\ res.principal = u
    /\ \A k \in api_keys :
          k.user_id \in DOMAIN users /\ users[k.user_id] # NoUser
    /\ (res.seen /\ res.api_key # NoApiKeyHeader) =>
          IF api_key_by_key(api_keys, res.api_key) = NoRow
          THEN /\ ~ res.handler
               /\ res.status = 401
               /\ res.message = "Invalid API key"
          ELSE /\ res.handler
               /\ res.via = "api_key"
               /\ res.principal \in DOMAIN users
               /\ users[res.principal] # NoUser

\* The session token of a user whose row has been deleted was accepted and
\* the handler was called with the user_id of the deleted row.
C29_Witness ==
    \E u \in DOMAIN users :
        /\ users[u] = NoUser
        /\ res.seen
        /\ res.authorization = <<Bearer, generate_jwt(u, SessionEmail(u), 0, 0)>>
        /\ res.handler
        /\ res.via = "bearer"
        /\ res.principal = u

\* The request just answered is a GET, PUT/PATCH or DELETE that passed the
\* gate and names an expense that was, when the request arrived, a row of
\* another user than the caller.
OnForeignExpense ==
    /\ res.seen
    /\ res.handler
    /\ res.op \in {"get_expense", "update_expense", "delete_expense"}
    /\ res.before # NoExpense
    /\ res.before.user_id # res.principal

=============================================================================
